---- MODULE Spec2Model ----
(***************************************************************************)
(* Model of glom's reconciliation store (src/src/stores.rs) and of the     *)
(* domain entities it merges (src/src/domain.rs).                          *)
(*                                                                         *)
(* The store is the single consumer of the event channel.  Each action of  *)
(* this module is one arm of ProjectStore::apply, run to completion on one *)
(* event: it rewrites the store's fields, records the event it consumed in *)
(* `event` and the events it sent on the channel, in send order, in        *)
(* `emitted`.  A panic (an unwrap of None, an index out of range) aborts   *)
(* the consumer: `crashed` becomes TRUE and nothing runs afterwards.       *)
(*                                                                         *)
(* Option<T> is modelled as a sequence of length at most one: None is <<>> *)
(* and Some(x) is <<x>>.  Vec<T> is a sequence.  Vec indices and the       *)
(* values of the id lookup are 0-based as in the source; sequence          *)
(* positions are 1-based, hence the `+ 1` in find.                         *)
(***************************************************************************)
EXTENDS Integers, Sequences, FiniteSets, TLC

VARIABLES
    projects,            \* ProjectStore.projects: Vec<Project>
    project_id_lookup,   \* ProjectStore.project_id_lookup: HashMap<ProjectId, usize>
    sorted,              \* ProjectStore.sorted: Vec<Project>
    event,               \* the event the consumer handed to apply() last
    emitted,             \* events sent on the channel while handling `event`
    crashed,             \* the consumer panicked while handling `event`
    stats_inflight,      \* ids whose requested statistics fetch has not finished
    stats_applied,       \* history: ids a ProjectStatisticsLoaded was applied to
    select_fetched,      \* history: ids a ProjectSelected sent PipelinesFetch for
    jobs_response,       \* the jobs array of the response behind a JobsLoaded `event`
    info_notices,        \* NoticeService.info_notices: VecDeque<Notice>
    error_notices,       \* NoticeService.error_notices: VecDeque<Notice>
    most_recent,         \* NoticeService.most_recent: Option<Notice>
    notice_log,          \* history: the calls made on the notice service, in order
    queue,               \* the event channel: events sent and not yet received
    tasks,               \* the fetch tasks spawned so far, in the order of spawning
    remote,              \* the revision of the data the remote API serves
    external,            \* how many events user and scheduler have originated
    jobs_arrivals,       \* history: the tasks whose JobsLoaded was applied, in order
    config,              \* GithubApi.config: RwLock<ClientConfig>
    client,              \* GithubApi.client: RwLock<Client>
    client_readers,      \* the fetches that hold a read guard on GithubApi.client
    updater,             \* the position of the thread inside update_config
    fetchers,            \* position and locals of each fetch building its request
    receiver_alive,      \* the receiving end of the channel exists
    panicked,            \* the emitters that panicked in a send
    api,                 \* GithubApi: the request in progress and what it has got
    input,               \* InputMultiplexer.processors, and the history of its calls
    poller               \* GithubPoller: start(), its two tasks, the shutdown channel

store_vars == <<projects, project_id_lookup, sorted, event, emitted, crashed,
                stats_inflight, stats_applied, select_fetched, jobs_response>>

notice_vars == <<info_notices, error_notices, most_recent, notice_log>>

system_vars == <<queue, tasks, remote, external, jobs_arrivals>>

config_vars == <<config, client, client_readers, updater, fetchers>>

bus_vars == <<receiver_alive, panicked>>

periphery_vars == <<api, input, poller>>

vars == <<store_vars, notice_vars, system_vars, config_vars, bus_vars, periphery_vars>>

(***************************************************************************)
(* Bounds of the model.                                                    *)
(***************************************************************************)
\* longest ProjectsLoaded / PipelinesLoaded / JobsLoaded batch
MaxBatchLen == 2

(***************************************************************************)
(* Option and sequence helpers.                                            *)
(***************************************************************************)
None == <<>>
Some(x) == <<x>>
is_none(o) == o = <<>>
is_some(o) == o # <<>>
unwrap(o) == o[1]

Range(s) == {s[i] : i \in DOMAIN s}

SeqsUpTo(S, n) == UNION {[1..k -> S] : k \in 0..n}

\* Iterator::filter on a sequence
RECURSIVE SelectSeqBy(_, _)
SelectSeqBy(s, keep) ==
    IF s = <<>> THEN <<>>
    ELSE IF keep[1]
         THEN <<s[1]>> \o SelectSeqBy(Tail(s), Tail(keep))
         ELSE SelectSeqBy(Tail(s), Tail(keep))

\* itertools sorted_by(|a, b| b.key.cmp(&a.key)): a stable sort, largest key
\* first; elements with equal keys keep their input order.  keys[i] is the
\* key of s[i].
SortDesc(s, keys) ==
    LET n == Len(s)
        rank(i) == 1 + Cardinality({j \in 1..n : keys[j] > keys[i]})
                     + Cardinality({j \in 1..(i - 1) : keys[j] = keys[i]})
    IN  [p \in 1..n |-> s[CHOOSE i \in 1..n : rank(i) = p]]

(***************************************************************************)
(* Time.  Timestamps are integers counting units of 1/DayLen of a day, so  *)
(* that the truncation of chrono's num_days() is visible.  Now is the      *)
(* reading of Utc::now() during the run.                                   *)
(***************************************************************************)
DayLen == 2
Now == 20 * DayLen

\* chrono Duration::num_days: whole days, truncated toward zero
num_days(d) == IF d >= 0 THEN d \div DayLen ELSE -((-d) \div DayLen)

is_older_than_7dMutNotTruncated(date) == Now - date > 7 * DayLen

is_older_than_7d(date) == num_days(Now - date) > 7

(***************************************************************************)
(* PipelineStatus and PipelineSource.                                      *)
(***************************************************************************)
PipelineStatus ==
    {"Queued", "InProgress", "Completed", "ActionRequired", "Cancelled", "Failure",
     "Neutral", "Skipped", "Stale", "Success", "TimedOut", "Unknown"}

is_active(status) == status \in {"Queued", "InProgress", "ActionRequired"}

is_interesting(source) ==
    source \in {"Push", "PullRequest", "Schedule", "WorkflowDispatch", "Release"}

(***************************************************************************)
(* Domain entities (domain.rs).                                            *)
(***************************************************************************)
\* impl From<ProjectDto> for Project
ProjectFrom(p) ==
    [id |-> p.full_name,
     description |-> p.description,
     path |-> p.full_name,
     default_branch |-> p.default_branch,
     ssh_git_url |-> p.ssh_url,
     url |-> p.html_url,
     last_activity_at |-> p.updated_at,
     pipelines |-> None,
     commit_count |-> 0,
     repo_size_kb |-> 0,
     artifacts_size_kb |-> 0,
     statistics_loading |-> FALSE]

\* impl From<PipelineDto> for Pipeline
PipelineFrom(p) ==
    [id |-> p.id,
     project_id |-> p.project_id,
     name |-> p.name,
     status |-> p.status,
     source |-> p.event,
     branch |-> IF is_some(p.head_branch) THEN unwrap(p.head_branch) ELSE "unknown",
     url |-> p.html_url,
     created_at |-> p.created_at,
     updated_at |-> p.updated_at,
     jobs |-> None,
     commit |-> None]

\* impl From<JobDto> for Job
JobFrom(j) ==
    [id |-> j.id,
     name |-> j.name,
     stage |-> "job",
     status |-> j.status,
     created_at |-> j.created_at,
     started_at |-> j.started_at,
     finished_at |-> j.completed_at,
     url |-> j.html_url]

\* impl From<CommitDto> for Commit
CommitFrom(c) == [title |-> c.title, author_name |-> c.author_name]

last_activity(project) == project.last_activity_at

\* Pipeline::has_active_jobs
has_active_jobs(pipeline) ==
    /\ is_some(pipeline.jobs)
    /\ \E i \in DOMAIN unwrap(pipeline.jobs) : is_active(unwrap(pipeline.jobs)[i].status)

\* Project::recent_pipelines
RecentWindow == 8

recent_pipelinesMutNoWindow(project) ==
    IF is_some(project.pipelines)
    THEN LET ps == unwrap(project.pipelines)
         IN  SelectSeqBy(ps, [i \in DOMAIN ps |-> is_interesting(ps[i].source)])
    ELSE <<>>

recent_pipelines(project) ==
    IF is_some(project.pipelines)
    THEN LET ps == unwrap(project.pipelines)
             interesting == SelectSeqBy(ps, [i \in DOMAIN ps |-> is_interesting(ps[i].source)])
         IN  SubSeq(interesting, 1, IF Len(interesting) < RecentWindow
                                    THEN Len(interesting) ELSE RecentWindow)
    ELSE <<>>

\* ps.iter().find(|ep| ep.id == id): the position of the first match, 0 if none
FindPipeline(ps, id) ==
    IF \E i \in DOMAIN ps : ps[i].id = id
    THEN CHOOSE i \in DOMAIN ps : ps[i].id = id /\ \A j \in 1..(i - 1) : ps[j].id # id
    ELSE 0

\* the closure of Project::update_pipelines: one incoming pipeline, merged
\* with the stored pipeline of the same id when there is one
MergePipelineMutDropDetail(existing, p) == p

MergePipeline(existing, p) ==
    LET at == IF is_some(existing) THEN FindPipeline(unwrap(existing), p.id) ELSE 0
    IN  IF at # 0
        THEN [p EXCEPT !.jobs = unwrap(existing)[at].jobs,
                       !.commit = unwrap(existing)[at].commit]
        ELSE p

update_pipelinesMutKeepsMissing(project, pipelines) ==
    LET merged == [i \in DOMAIN pipelines |-> MergePipeline(project.pipelines, pipelines[i])]
        stored == IF is_some(project.pipelines) THEN unwrap(project.pipelines) ELSE <<>>
        kept == SelectSeqBy(stored, [i \in DOMAIN stored |->
                                        FindPipeline(pipelines, stored[i].id) = 0])
        all == merged \o kept
    IN  [project EXCEPT !.pipelines =
            Some(SortDesc(all, [i \in DOMAIN all |-> all[i].updated_at]))]

\* Project::update_pipelines
update_pipelines(project, pipelines) ==
    LET merged == [i \in DOMAIN pipelines |-> MergePipeline(project.pipelines, pipelines[i])]
    IN  [project EXCEPT !.pipelines =
            Some(SortDesc(merged, [i \in DOMAIN merged |-> merged[i].updated_at]))]

\* Project::update_project
update_projectMutResetPipelines(self, project) ==
    [project EXCEPT !.description = self.description,
                    !.commit_count = self.commit_count,
                    !.repo_size_kb = self.repo_size_kb,
                    !.artifacts_size_kb = self.artifacts_size_kb,
                    !.statistics_loading = self.statistics_loading]

update_projectMutKeepsActivity(self, project) ==
    [self EXCEPT !.id = project.id,
                 !.path = project.path,
                 !.default_branch = project.default_branch,
                 !.ssh_git_url = project.ssh_git_url,
                 !.url = project.url]

update_project(self, project) ==
    [self EXCEPT !.id = project.id,
                 !.path = project.path,
                 !.default_branch = project.default_branch,
                 !.ssh_git_url = project.ssh_git_url,
                 !.url = project.url,
                 !.last_activity_at = project.last_activity_at]

\* Project::update_jobs
update_jobs(project, pipeline_id, jobs) ==
    LET at == IF is_some(project.pipelines)
              THEN FindPipeline(unwrap(project.pipelines), pipeline_id) ELSE 0
    IN  IF at # 0
        THEN [project EXCEPT !.pipelines = Some([unwrap(@) EXCEPT ![at].jobs = Some(jobs)])]
        ELSE project

\* Project::update_commit
update_commit(project, pipeline_id, commit) ==
    LET at == IF is_some(project.pipelines)
              THEN FindPipeline(unwrap(project.pipelines), pipeline_id) ELSE 0
    IN  IF at # 0
        THEN [project EXCEPT !.pipelines = Some([unwrap(@) EXCEPT ![at].commit = Some(commit)])]
        ELSE project

(***************************************************************************)
(* Events (event.rs), as far as the store consumes or sends them.          *)
(***************************************************************************)
NoEvent == [type |-> "None"]
ProjectsLoaded(dtos) == [type |-> "ProjectsLoaded", projects |-> dtos]
PipelinesLoaded(dtos) == [type |-> "PipelinesLoaded", pipelines |-> dtos]
JobsLoaded(project_id, pipeline_id, dtos) ==
    [type |-> "JobsLoaded", project_id |-> project_id, pipeline_id |-> pipeline_id,
     jobs |-> dtos]
ProjectStatisticsLoaded(project_id, statistics) ==
    [type |-> "ProjectStatisticsLoaded", project_id |-> project_id,
     statistics |-> statistics]
ProjectSelected(project_id) == [type |-> "ProjectSelected", project_id |-> project_id]
ProjectDetailsOpen(project_id) == [type |-> "ProjectDetailsOpen", project_id |-> project_id]
ProjectUpdated(project) == [type |-> "ProjectUpdated", project |-> project]
PipelinesFetch(project_id) == [type |-> "PipelinesFetch", project_id |-> project_id]
JobsFetch(project_id, pipeline_id) ==
    [type |-> "JobsFetch", project_id |-> project_id, pipeline_id |-> pipeline_id]
ProjectStatisticsFetch(project_id) ==
    [type |-> "ProjectStatisticsFetch", project_id |-> project_id]

(***************************************************************************)
(* The store (stores.rs).  The handlers are written as operators on a      *)
(* record st = [projects, lookup, sorted, out, crashed]: the three fields  *)
(* of ProjectStore, the events sent so far and whether apply() panicked.   *)
(***************************************************************************)
\* HashMap::insert
MapInsert(m, k, v) == [x \in DOMAIN m \cup {k} |-> IF x = k THEN v ELSE m[x]]

\* ProjectStore::project_idx
project_idx(lookup, id) == IF id \in DOMAIN lookup THEN Some(lookup[id]) ELSE None

findMutFirst(lookup, id) == IF id \in DOMAIN lookup THEN 1 ELSE 0

\* ProjectStore::find / find_mut: the position in `projects` (1-based), 0 if none
find(lookup, id) ==
    IF is_some(project_idx(lookup, id)) THEN unwrap(project_idx(lookup, id)) + 1 ELSE 0

\* ProjectStore::projects_sorted_by_last_activity
projects_sorted_by_last_activityMutAscending(ps) ==
    SortDesc(ps, [i \in DOMAIN ps |-> -last_activity(ps[i])])

projects_sorted_by_last_activityMutInsertionOrder(ps) == ps

projects_sorted_by_last_activity(ps) ==
    SortDesc(ps, [i \in DOMAIN ps |-> last_activity(ps[i])])

Send(st, e) == [st EXCEPT !.out = Append(@, e)]

\* ProjectStore::sync_project
sync_projectMutAlwaysPush(st, project) ==
    [st EXCEPT !.lookup = MapInsert(@, project.id, Len(st.projects)),
               !.projects = Append(@, project)]

sync_projectMutNoEagerFetch(st, project) ==
    LET at == find(st.lookup, project.id)
    IN  IF at # 0
        THEN [Send(st, PipelinesFetch(project.id))
                EXCEPT !.projects[at] = update_project(@, project)]
        ELSE [st EXCEPT !.lookup = MapInsert(@, project.id, Len(st.projects)),
                        !.projects = Append(@, project)]

sync_project(st, project) ==
    LET at == find(st.lookup, project.id)
    IN  IF at # 0
        THEN [Send(st, PipelinesFetch(project.id))
                EXCEPT !.projects[at] = update_project(@, project)]
        ELSE LET recent == ~is_older_than_7d(last_activity(project))
                 st1 == [st EXCEPT !.lookup = MapInsert(@, project.id, Len(st.projects))]
                 st2 == IF recent THEN Send(st1, PipelinesFetch(project.id)) ELSE st1
                 new == IF recent THEN [project EXCEPT !.pipelines = Some(<<>>)]
                                  ELSE project
             IN  [st2 EXCEPT !.projects = Append(@, new)]

\* the for_each of the ProjectsLoaded arm: sync each project, then send
\* ProjectUpdated with the copy made from the DTO
RECURSIVE SyncAll(_, _)
SyncAll(st, dtos) ==
    IF dtos = <<>> THEN st
    ELSE LET p == ProjectFrom(Head(dtos))
         IN  SyncAll(Send(sync_project(st, p), ProjectUpdated(p)), Tail(dtos))

\* apply, GlomEvent::ProjectsLoaded
OnProjectsLoaded(st, dtos) ==
    LET first_projects == st.sorted = <<>>
        st1 == SyncAll(st, dtos)
        st2 == [st1 EXCEPT !.sorted = projects_sorted_by_last_activity(st1.projects)]
    IN  IF ~first_projects THEN st2
        ELSE IF st2.sorted = <<>> THEN [st2 EXCEPT !.crashed = TRUE]
        ELSE Send(st2, ProjectSelected(st2.sorted[1].id))

\* the filter of the PipelinesLoaded arm, on the pipelines built from the DTOs
NeedsJobs(p) == is_active(p.status) \/ has_active_jobs(p)

RECURSIVE SendJobsFetch(_, _, _)
SendJobsFetch(st, project_id, pipelines) ==
    IF pipelines = <<>> THEN st
    ELSE SendJobsFetch(
            IF NeedsJobs(Head(pipelines))
            THEN Send(st, JobsFetch(project_id, Head(pipelines).id)) ELSE st,
            project_id, Tail(pipelines))

\* apply, GlomEvent::PipelinesLoaded
OnPipelinesLoaded(st, dtos) ==
    IF dtos = <<>> THEN [st EXCEPT !.crashed = TRUE]
    ELSE LET project_id == dtos[1].project_id
             at == find(st.lookup, project_id)
             pipelines == [i \in DOMAIN dtos |-> PipelineFrom(dtos[i])]
             st1 == IF at = 0 THEN st
                    ELSE LET sent == SendJobsFetch(st, project_id, pipelines)
                             upd == [sent EXCEPT !.projects[at] =
                                        update_pipelines(@, pipelines)]
                         IN  Send(upd, ProjectUpdated(upd.projects[at]))
         IN  [st1 EXCEPT !.sorted = projects_sorted_by_last_activity(st1.projects)]

\* apply, GlomEvent::JobsLoaded
OnJobsLoaded(st, project_id, pipeline_id, job_dtos) ==
    LET jobs == [i \in DOMAIN job_dtos |-> JobFrom(job_dtos[i])]
        at == find(st.lookup, project_id)
        st1 == IF at = 0 THEN st
               ELSE LET j == [st EXCEPT !.projects[at] = update_jobs(@, pipeline_id, jobs)]
                    IN  IF job_dtos = <<>> THEN [j EXCEPT !.crashed = TRUE]
                        ELSE LET c == [j EXCEPT !.projects[at] =
                                          update_commit(@, pipeline_id,
                                                        CommitFrom(job_dtos[1].commit))]
                             IN  Send(c, ProjectUpdated(c.projects[at]))
    IN  IF st1.crashed THEN st1
        ELSE [st1 EXCEPT !.sorted = projects_sorted_by_last_activity(st1.projects)]

\* bytes to KB, as the ProjectStatisticsLoaded arm converts
BytesPerKb == 1024

\* apply, GlomEvent::ProjectStatisticsLoaded
OnProjectStatisticsLoaded(st, project_id, statistics) ==
    LET at == find(st.lookup, project_id)
    IN  IF at = 0 THEN st
        ELSE LET upd == [st EXCEPT
                            !.projects[at].commit_count = statistics.commit_count,
                            !.projects[at].repo_size_kb =
                                statistics.repository_size \div BytesPerKb,
                            !.projects[at].artifacts_size_kb =
                                statistics.job_artifacts_size \div BytesPerKb,
                            !.projects[at].statistics_loading = FALSE]
             IN  Send(upd, ProjectUpdated(upd.projects[at]))

\* apply, GlomEvent::ProjectSelected
OnProjectSelectedMutAlwaysFetch(st, id) ==
    LET at == find(st.lookup, id)
    IN  IF at # 0
        THEN Send(IF is_none(st.projects[at].pipelines)
                  THEN [st EXCEPT !.projects[at].pipelines = Some(<<>>)] ELSE st,
                  PipelinesFetch(id))
        ELSE st

OnProjectSelected(st, id) ==
    LET at == find(st.lookup, id)
    IN  IF at # 0 /\ is_none(st.projects[at].pipelines)
        THEN Send([st EXCEPT !.projects[at].pipelines = Some(<<>>)], PipelinesFetch(id))
        ELSE st

RECURSIVE SendMissingJobs(_, _, _)
SendMissingJobs(st, project_id, pipelines) ==
    IF pipelines = <<>> THEN st
    ELSE SendMissingJobs(
            IF is_none(Head(pipelines).jobs)
            THEN Send(st, JobsFetch(project_id, Head(pipelines).id)) ELSE st,
            project_id, Tail(pipelines))

\* the test of the statistics branch of the ProjectDetailsOpen arm
StatisticsMissing(project) ==
    /\ project.commit_count = 0
    /\ project.repo_size_kb = 0
    /\ project.artifacts_size_kb = 0
    /\ ~project.statistics_loading

\* apply, GlomEvent::ProjectDetailsOpen
OnProjectDetailsOpenMutFetchFirst(st, id) ==
    LET at == find(st.lookup, id)
    IN  IF at = 0 THEN [st EXCEPT !.crashed = TRUE]
        ELSE LET project == st.projects[at]
                 st1 == SendMissingJobs(st, project.id, recent_pipelines(project))
             IN  IF StatisticsMissing(project)
                 THEN LET st2 == Send(st1, ProjectStatisticsFetch(project.id))
                          set == [st2 EXCEPT !.projects[at].statistics_loading = TRUE]
                      IN  Send(set, ProjectUpdated(set.projects[at]))
                 ELSE st1

OnProjectDetailsOpenMutReopen(st, id) ==
    LET at == find(st.lookup, id)
    IN  IF at = 0 THEN [st EXCEPT !.crashed = TRUE]
        ELSE LET project == st.projects[at]
                 st1 == SendMissingJobs(st, project.id, recent_pipelines(project))
                 mut == find(st.lookup, project.id)
                 st3 == IF StatisticsMissing(project)
                        THEN LET st2 == IF mut = 0 THEN st1
                                        ELSE LET set == [st1 EXCEPT
                                                   !.projects[mut].statistics_loading = TRUE]
                                             IN  Send(set, ProjectUpdated(set.projects[mut]))
                             IN  Send(st2, ProjectStatisticsFetch(project.id))
                        ELSE st1
             IN  Send(st3, ProjectDetailsOpen(id))

OnProjectDetailsOpen(st, id) ==
    LET at == find(st.lookup, id)
    IN  IF at = 0 THEN [st EXCEPT !.crashed = TRUE]
        ELSE LET project == st.projects[at]
                 st1 == SendMissingJobs(st, project.id, recent_pipelines(project))
                 mut == find(st.lookup, project.id)
             IN  IF StatisticsMissing(project)
                 THEN LET st2 == IF mut = 0 THEN st1
                                 ELSE LET set == [st1 EXCEPT
                                            !.projects[mut].statistics_loading = TRUE]
                                      IN  Send(set, ProjectUpdated(set.projects[mut]))
                      IN  Send(st2, ProjectStatisticsFetch(project.id))
                 ELSE st1

(***************************************************************************)
(* What the remote API answers: small sets of sample DTOs.  A repository   *)
(* or a run is reported in one of two revisions, which differ in every     *)
(* field a refresh can change.                                             *)
(***************************************************************************)
Widgets == "acme/widgets"
Gears == "acme/gears"

ProjectDto(name, rev, updated_at) ==
    [full_name |-> name,
     description |-> IF rev = 1 THEN None ELSE Some("tooling"),
     default_branch |-> IF rev = 1 THEN "master" ELSE "main",
     ssh_url |-> <<"ssh", name, rev>>,
     html_url |-> <<"html", name, rev>>,
     updated_at |-> updated_at]

\* Widgets: last active 8 days ago, then 2 days ago
WidgetsDtos == {ProjectDto(Widgets, 1, Now - 8 * DayLen), ProjectDto(Widgets, 2, Now - 2 * DayLen)}
\* Gears: last active 2 days ago, or (an older snapshot) 9 days ago
GearsDtos == {ProjectDto(Gears, 1, Now - 2 * DayLen), ProjectDto(Gears, 2, Now - 9 * DayLen)}
\* either side of the 7-day limit: 6 days, and 7 days and a half
BoundaryDtos ==
    {ProjectDto(Widgets, 1, Now - 6 * DayLen), ProjectDto(Gears, 2, Now - 7 * DayLen - 1)}

PipelineIds == {1, 2}

PipelineDto(project_id, id, rev) ==
    [id |-> id,
     project_id |-> project_id,
     name |-> IF id = 1 THEN "ci" ELSE "nightly",
     status |-> IF rev = 1 THEN "InProgress" ELSE "Success",
     event |-> IF id = 1 THEN "Push" ELSE "Fork",
     head_branch |-> IF rev = 1 THEN Some("feature") ELSE None,
     html_url |-> <<"run", id, rev>>,
     created_at |-> Now - 6 + rev,
     updated_at |-> Now - 6 + id + rev]

PipelineDtos(project_id) ==
    {PipelineDto(project_id, id, rev) : id \in PipelineIds, rev \in {1, 2}}

NoDuplicateIds(s) == \A i, j \in DOMAIN s : s[i].id = s[j].id => i = j

\* a page of runs of one repository: get_pipelines stamps every run with the
\* project id of the request; the empty page is the answer for a repository
\* without runs
PipelineBatches(project_id) ==
    {b \in SeqsUpTo(PipelineDtos(project_id), MaxBatchLen) : NoDuplicateIds(b)}

CommitDtoDefault == [title |-> "", author_name |-> ""]

JobDto(id, status) ==
    [id |-> id,
     name |-> IF id = 1 THEN "build" ELSE "test",
     commit |-> CommitDtoDefault,
     status |-> status,
     created_at |-> Now - 5,
     started_at |-> Some(Now - 4),
     completed_at |-> IF is_active(status) THEN None ELSE Some(Now - 3),
     html_url |-> <<"job", id>>]

JobDtos == {JobDto(1, "InProgress"), JobDto(2, "Success")}

\* the jobs array of a response, in any order
JobResponses == {b \in SeqsUpTo(JobDtos, MaxBatchLen) : NoDuplicateIds(b)}

\* GithubApi::get_jobs: jobs.sort_by_key(|job| job.id), a stable ascending sort
get_jobsMutUnsorted(response_jobs) == response_jobs

get_jobs(response_jobs) ==
    SortDesc(response_jobs, [i \in DOMAIN response_jobs |-> -response_jobs[i].id])

StatisticsDtos ==
    {[commit_count |-> 0, repository_size |-> 0, job_artifacts_size |-> 512],
     [commit_count |-> 12, repository_size |-> 2 * BytesPerKb,
      job_artifacts_size |-> 4 * BytesPerKb + 100]}

AppError == [type |-> "AppError"]

(***************************************************************************)
(* The client configuration (client/config.rs, client/api.rs).             *)
(***************************************************************************)
\* ClientConfig, revision n: every field a request is built from differs
\* from one revision to the next
ClientConfigOf(n) ==
    [base_url |-> "https://api.github.com/v" \o ToString(n),
     private_token |-> "ghp_0123456789abcdef_" \o ToString(n),
     per_page |-> 50,
     timeout |-> 30 + n]

\* a configuration the user left without a token
ClientConfigNoToken == [ClientConfigOf(0) EXCEPT !.private_token = ""]

validateMutAlways(c) == TRUE

\* ClientConfig::validate: the emptiness tests and the tests on the request
\* settings; the sample values pass the tests on prefix, host and length
validate(c) ==
    /\ c.base_url # ""
    /\ c.private_token # ""
    /\ ~(c.per_page = 0 \/ c.per_page > 100)
    /\ c.timeout # 0

is_configuredMutAlways(c) == TRUE

\* GithubApi::is_configured
is_configured(c) == validate(c)

\* Client::builder().timeout(config.request.timeout).build()
ClientOf(c) == [timeout |-> c.timeout]

Fetchers == {1, 2}

(***************************************************************************)
(* The consumer loop: one action per event kind the store reacts to.       *)
(***************************************************************************)
\* no response yet
NoResponse == [status |-> 0]

\* the API before any request
ApiIdle ==
    [pc |-> "idle", response |-> NoResponse, answer |-> None, repo_details |-> None,
     contributors |-> None, commits |-> None, artifacts |-> None, result |-> None]

Init ==
    /\ projects = <<>>
    /\ project_id_lookup = <<>>
    /\ sorted = <<>>
    /\ event = NoEvent
    /\ emitted = <<>>
    /\ crashed = FALSE
    /\ stats_inflight = {}
    /\ stats_applied = {}
    /\ select_fetched = {}
    /\ jobs_response = <<>>
    /\ info_notices = <<>>
    /\ error_notices = <<>>
    /\ most_recent = None
    /\ notice_log = <<>>
    /\ queue = <<>>
    /\ tasks = <<>>
    /\ remote = 1
    /\ external = 0
    /\ jobs_arrivals = <<>>
    /\ config = ClientConfigOf(0)
    /\ client = ClientOf(ClientConfigOf(0))
    /\ client_readers = {}
    /\ updater = [pc |-> "idle", pending |-> None, done |-> 0, arg |-> None,
                  returned |-> None]
    /\ fetchers = [f \in Fetchers |->
                     [pc |-> "idle", url |-> None, client |-> None, request |-> None]]
    /\ receiver_alive = TRUE
    /\ panicked = {}
    /\ api = ApiIdle
    /\ input = [processors |-> <<>>, hooks |-> <<>>, applied |-> 0]
    /\ poller = [start |-> "new", projects_task |-> "none", jobs_task |-> "none",
                 signalled |-> {}, sent |-> FALSE, projects_ticks |-> 0, jobs_ticks |-> 0]

StoreNow ==
    [projects |-> projects, lookup |-> project_id_lookup, sorted |-> sorted,
     out |-> <<>>, crashed |-> FALSE]

Handled(e, st) ==
    /\ event' = e
    /\ projects' = st.projects
    /\ project_id_lookup' = st.lookup
    /\ sorted' = st.sorted
    /\ emitted' = st.out
    /\ crashed' = st.crashed
    /\ UNCHANGED <<notice_vars, config_vars, bus_vars, periphery_vars>>

Known == DOMAIN project_id_lookup

ApplyProjectsLoaded(dtos) ==
    /\ ~crashed
    /\ Handled(ProjectsLoaded(dtos), OnProjectsLoaded(StoreNow, dtos))
    /\ jobs_response' = <<>>
    /\ UNCHANGED <<stats_inflight, stats_applied, select_fetched>>

ApplyPipelinesLoaded(dtos) ==
    /\ ~crashed
    /\ Handled(PipelinesLoaded(dtos), OnPipelinesLoaded(StoreNow, dtos))
    /\ jobs_response' = <<>>
    /\ UNCHANGED <<stats_inflight, stats_applied, select_fetched>>

ApplyJobsLoaded(project_id, pipeline_id, response_jobs) ==
    /\ ~crashed
    /\ LET dtos == get_jobs(response_jobs)
       IN  Handled(JobsLoaded(project_id, pipeline_id, dtos),
                   OnJobsLoaded(StoreNow, project_id, pipeline_id, dtos))
    /\ jobs_response' = response_jobs
    /\ UNCHANGED <<stats_inflight, stats_applied, select_fetched>>

ApplyProjectStatisticsLoaded(project_id, statistics) ==
    /\ ~crashed
    /\ project_id \in stats_inflight
    /\ Handled(ProjectStatisticsLoaded(project_id, statistics),
               OnProjectStatisticsLoaded(StoreNow, project_id, statistics))
    /\ jobs_response' = <<>>
    /\ stats_inflight' = stats_inflight \ {project_id}
    /\ stats_applied' = IF project_id \in Known THEN stats_applied \cup {project_id}
                        ELSE stats_applied
    /\ UNCHANGED select_fetched

\* a statistics fetch that fails ends in an AppError, which the store ignores
StatisticsFetchFailed(project_id) ==
    /\ ~crashed
    /\ project_id \in stats_inflight
    /\ Handled(AppError, StoreNow)
    /\ jobs_response' = <<>>
    /\ stats_inflight' = stats_inflight \ {project_id}
    /\ UNCHANGED <<stats_applied, select_fetched>>

ApplyProjectSelected(id) ==
    /\ ~crashed
    /\ LET st == OnProjectSelected(StoreNow, id)
       IN  /\ Handled(ProjectSelected(id), st)
           /\ select_fetched' = IF PipelinesFetch(id) \in Range(st.out)
                                THEN select_fetched \cup {id} ELSE select_fetched
    /\ jobs_response' = <<>>
    /\ UNCHANGED <<stats_inflight, stats_applied>>

ApplyProjectDetailsOpen(id) ==
    /\ ~crashed
    /\ LET st == OnProjectDetailsOpen(StoreNow, id)
       IN  /\ Handled(ProjectDetailsOpen(id), st)
           /\ stats_inflight' =
                stats_inflight \cup
                    {st.out[i].project_id : i \in
                        {j \in DOMAIN st.out : st.out[j].type = "ProjectStatisticsFetch"}}
    /\ jobs_response' = <<>>
    /\ UNCHANGED <<stats_applied, select_fetched>>

\* an event handed to the store directly, not through the channel
Direct(A) == A /\ UNCHANGED system_vars

\* One repository (Widgets), with its runs, their jobs and its statistics.
WidgetsBatches == SeqsUpTo(WidgetsDtos, MaxBatchLen)

Next ==
    \/ \E dtos \in WidgetsBatches : Direct(ApplyProjectsLoaded(dtos))
    \/ \E id \in Known : \E dtos \in PipelineBatches(id) : Direct(ApplyPipelinesLoaded(dtos))
    \/ \E id \in Known, pipeline_id \in PipelineIds, response_jobs \in JobResponses :
            Direct(ApplyJobsLoaded(id, pipeline_id, response_jobs))
    \/ \E id \in Known : Direct(ApplyProjectSelected(id))
    \/ \E id \in Known : Direct(ApplyProjectDetailsOpen(id))
    \/ \E id \in Known, statistics \in StatisticsDtos :
            Direct(ApplyProjectStatisticsLoaded(id, statistics))
    \/ \E id \in Known : Direct(StatisticsFetchFailed(id))

Spec == Init /\ [][Next]_vars

\* Two repositories: project lists in batches that may repeat an id, and
\* selection.
ProjectBatches == SeqsUpTo(WidgetsDtos \cup GearsDtos \cup BoundaryDtos, MaxBatchLen)

NextProjects ==
    \/ \E dtos \in ProjectBatches : Direct(ApplyProjectsLoaded(dtos))
    \/ \E id \in Known : Direct(ApplyProjectSelected(id))

SpecProjects == Init /\ [][NextProjects]_vars

\* A repository with a long run history: pages of up to MaxRuns runs, newest
\* first, so that the history is longer than the recent window.
MaxRuns == 9

RunIds == 1..MaxRuns

\* run `id` of a page; the runs named in `forks` were triggered by a fork
RunDto(project_id, id, forks) ==
    [id |-> id,
     project_id |-> project_id,
     name |-> "ci",
     status |-> "Success",
     event |-> IF id \in forks THEN "Fork" ELSE "Push",
     head_branch |-> Some("main"),
     html_url |-> <<"run", id, 2>>,
     created_at |-> Now - id - 1,
     updated_at |-> Now - id]

RunPages ==
    {[i \in 1..n |-> RunDto(Widgets, i, forks)] :
        n \in {1, MaxRuns - 1, MaxRuns}, forks \in {{}, {2}}}

NextWindow ==
    \/ Direct(ApplyProjectsLoaded(<<ProjectDto(Widgets, 2, Now - 2 * DayLen)>>))
    \/ \E dtos \in RunPages : Direct(ApplyPipelinesLoaded(dtos))
    \/ \E id \in Known, pipeline_id \in RunIds :
            Direct(ApplyJobsLoaded(id, pipeline_id, <<JobDto(2, "Success")>>))
    \/ \E id \in Known : Direct(ApplyProjectDetailsOpen(id))

SpecWindow == Init /\ [][NextWindow]_vars

\* Two repositories and every store handler, each with one sample input.
NextSorted ==
    \/ \E dto \in WidgetsDtos \cup {ProjectDto(Gears, 1, Now - 2 * DayLen)} :
            Direct(ApplyProjectsLoaded(<<dto>>))
    \/ \E id \in Known : Direct(ApplyPipelinesLoaded(<<PipelineDto(id, 1, 1)>>))
    \/ \E id \in Known : Direct(ApplyJobsLoaded(id, 1, <<JobDto(1, "InProgress")>>))
    \/ \E id \in Known : Direct(ApplyProjectSelected(id))
    \/ \E id \in Known : Direct(ApplyProjectDetailsOpen(id))
    \/ \E id \in Known :
            Direct(ApplyProjectStatisticsLoaded(id, [commit_count |-> 12,
                                              repository_size |-> 2 * BytesPerKb,
                                              job_artifacts_size |-> 4 * BytesPerKb + 100]))

SpecSorted == Init /\ [][NextSorted]_vars

(***************************************************************************)
(* The notice service (notice_service.rs).                                 *)
(***************************************************************************)
\* GlomError, one sample value per variant
GlomErrors ==
    {[type |-> "InvalidGithubToken"],
     [type |-> "ExpiredGithubToken"],
     [type |-> "ConfigFileNotFound", path |-> "glom.toml"],
     [type |-> "ConfigLoadError", path |-> "glom.toml", message |-> "bad syntax"],
     [type |-> "ConfigSaveError", path |-> "glom.toml", message |-> "read-only"],
     [type |-> "ConfigValidationError", field |-> "token", message |-> "empty"],
     [type |-> "ConfigConnectionError", message |-> "timeout"],
     [type |-> "GeneralError", message |-> "boom"],
     [type |-> "JsonDeserializeError", category |-> "Syntax", json |-> "{"],
     [type |-> "GithubGetJobsError", project_id |-> Widgets, pipeline_id |-> 1,
      message |-> "500"],
     [type |-> "GithubGetTriggerJobsError", project_id |-> Widgets, pipeline_id |-> 1,
      message |-> "500"],
     [type |-> "GithubGetPipelinesError", project_id |-> Widgets, pipeline_id |-> 1,
      message |-> "500"]}

AppErrorOf(e) == [type |-> "AppError", error |-> e]

\* the events the notice service is handed: every error, the three events
\* that raise an info notice, and one it ignores
NoticeEvents ==
    {AppErrorOf(e) : e \in GlomErrors}
        \cup {[type |-> "JobLogDownloaded", project_id |-> Widgets, job_id |-> 1],
              [type |-> "ScreenCaptureToClipboard"],
              [type |-> "LogLevelChanged", level |-> "DEBUG"],
              [type |-> "AppTick"]}

\* the match on the error in the AppError arm of NoticeService::apply
NoticeMessageOfMutGeneral(e) == [kind |-> "GeneralMessage", text |-> e.type]

NoticeMessageOf(e) ==
    CASE e.type = "InvalidGithubToken" -> [kind |-> "InvalidGithubToken"]
      [] e.type = "ExpiredGithubToken" -> [kind |-> "ExpiredGithubToken"]
      [] e.type = "ConfigFileNotFound" ->
            [kind |-> "ConfigError", text |-> <<"Configuration file not found: ", e.path>>]
      [] e.type = "ConfigLoadError" ->
            [kind |-> "ConfigError",
             text |-> <<"Failed to load config from ", e.path, ": ", e.message>>]
      [] e.type = "ConfigSaveError" ->
            [kind |-> "ConfigError",
             text |-> <<"Failed to save config to ", e.path, ": ", e.message>>]
      [] e.type = "ConfigValidationError" ->
            [kind |-> "ConfigError", text |-> <<"Invalid ", e.field, ": ", e.message>>]
      [] e.type = "ConfigConnectionError" ->
            [kind |-> "ConfigError", text |-> <<"Connection test failed: ", e.message>>]
      [] e.type = "GeneralError" -> [kind |-> "GeneralMessage", text |-> e.message]
      [] e.type = "JsonDeserializeError" ->
            [kind |-> "JsonDeserializeError", category |-> e.category, json |-> e.json]
      [] e.type = "GithubGetJobsError" ->
            [kind |-> "GithubGetJobsError", project_id |-> e.project_id,
             pipeline_id |-> e.pipeline_id, text |-> e.message]
      [] e.type = "GithubGetTriggerJobsError" ->
            [kind |-> "GithubGetTriggerJobsError", project_id |-> e.project_id,
             pipeline_id |-> e.pipeline_id, text |-> e.message]
      [] e.type = "GithubGetPipelinesError" ->
            [kind |-> "GithubGetPipelinesError", project_id |-> e.project_id,
             pipeline_id |-> e.pipeline_id, text |-> e.message]

\* the notice service as a record ns = [info, error, recent]
NoticesNow == [info |-> info_notices, error |-> error_notices, recent |-> most_recent]

\* NoticeService::push_notice
push_noticeMutSingleQueue(ns, level, message) ==
    [ns EXCEPT !.info = Append(@, [level |-> level, message |-> message])]

push_notice(ns, level, message) ==
    LET notice == [level |-> level, message |-> message]
    IN  IF level = "Info" THEN [ns EXCEPT !.info = Append(@, notice)]
        ELSE [ns EXCEPT !.error = Append(@, notice)]

\* NoticeService::apply
NoticeApplyTo(ns, e) ==
    CASE e.type = "AppError" -> push_notice(ns, "Error", NoticeMessageOf(e.error))
      [] e.type = "JobLogDownloaded" ->
            push_notice(ns, "Info", [kind |-> "GeneralMessage", text |-> "Job log downloaded"])
      [] e.type = "ScreenCaptureToClipboard" ->
            push_notice(ns, "Info", [kind |-> "ScreenCaptured"])
      [] e.type = "LogLevelChanged" ->
            push_notice(ns, "Info", [kind |-> "LogLevelChanged", level |-> e.level])
      [] OTHER -> ns

\* NoticeService::has_error
has_error(ns) == ns.error # <<>>

\* takes the newest notice of a queue instead of the oldest
pop_noticeMutNewest(ns) ==
    LET last(q) == q[Len(q)]
        front(q) == SubSeq(q, 1, Len(q) - 1)
        notice == IF ns.error # <<>> THEN Some(last(ns.error))
                  ELSE IF ns.info # <<>> THEN Some(last(ns.info))
                  ELSE None
        popped == IF ns.error # <<>> THEN [ns EXCEPT !.error = front(@)]
                  ELSE IF ns.info # <<>> THEN [ns EXCEPT !.info = front(@)]
                  ELSE ns
    IN  [ns |-> IF is_some(notice) THEN [popped EXCEPT !.recent = notice] ELSE popped,
         result |-> notice]

\* NoticeService::pop_notice: the service afterwards and the value returned
pop_notice(ns) ==
    LET notice == IF ns.error # <<>> THEN Some(Head(ns.error))
                  ELSE IF ns.info # <<>> THEN Some(Head(ns.info))
                  ELSE None
        popped == IF ns.error # <<>> THEN [ns EXCEPT !.error = Tail(@)]
                  ELSE IF ns.info # <<>> THEN [ns EXCEPT !.info = Tail(@)]
                  ELSE ns
    IN  [ns |-> IF is_some(notice) THEN [popped EXCEPT !.recent = notice] ELSE popped,
         result |-> notice]

\* the calls made on the service are counted up to this many
MaxNoticeOps == 3

NoticesAre(ns) ==
    /\ info_notices' = ns.info
    /\ error_notices' = ns.error
    /\ most_recent' = ns.recent

NoticeApply(e) ==
    /\ Len(notice_log) < MaxNoticeOps
    /\ NoticesAre(NoticeApplyTo(NoticesNow, e))
    /\ notice_log' = Append(notice_log, [op |-> "apply", event |-> e])
    /\ UNCHANGED <<store_vars, system_vars, config_vars, bus_vars, periphery_vars>>

NoticePop ==
    /\ Len(notice_log) < MaxNoticeOps
    /\ LET r == pop_notice(NoticesNow)
       IN  /\ NoticesAre(r.ns)
           /\ notice_log' = Append(notice_log, [op |-> "pop", result |-> r.result])
    /\ UNCHANGED <<store_vars, system_vars, config_vars, bus_vars, periphery_vars>>

NextNotices ==
    \/ \E e \in NoticeEvents : NoticeApply(e)
    \/ NoticePop

SpecNotices == Init /\ [][NextNotices]_vars

(***************************************************************************)
(* The whole loop: the channel, the consumer that hands each event to the  *)
(* store and the notice service and starts a fetch task for each fetch     *)
(* request, and the fetch tasks (client/service.rs), which answer with an  *)
(* event of their own.                                                     *)
(***************************************************************************)
\* an event in the channel, with the task that sent it (0: not a fetch task)
Queued(e, task) == [event |-> e, task |-> task]

\* events from outside (keys, the projects timer) are counted up to this many
MaxExternal == 2

ProjectsFetch == [type |-> "ProjectsFetch"]

\* ClientError: one value of each kind
ClientErrors ==
    {[kind |-> "Http", text |-> "connection refused"],
     [kind |-> "JsonParse", endpoint |-> "/user/repos", message |-> "Failed to parse response"],
     [kind |-> "GithubApi", message |-> "HTTP 500: boom"],
     [kind |-> "Config", text |-> "no runtime"],
     [kind |-> "ConfigValidation", field |-> "per_page",
      message |-> "per_page must be between 1 and 100"],
     [kind |-> "Authentication"],
     [kind |-> "InvalidToken"],
     [kind |-> "ExpiredToken"],
     [kind |-> "Timeout"],
     [kind |-> "InvalidUrl", url |-> "htp:/x"],
     [kind |-> "NotFound", resource |-> "Resource"],
     [kind |-> "RateLimit"]}

GeneralError(message) == [type |-> "GeneralError", message |-> message]

\* impl From<&ClientError> for GlomError
GlomErrorFromMutTokens(err) == GeneralError(err.kind)

GlomErrorFrom(err) ==
    CASE err.kind = "Http" -> GeneralError("HTTP error: " \o err.text)
      [] err.kind = "JsonParse" ->
            GeneralError("JSON parse error from " \o err.endpoint \o ": " \o err.message)
      [] err.kind = "GithubApi" -> GeneralError(err.message)
      [] err.kind = "Config" -> GeneralError(err.text)
      [] err.kind = "ConfigValidation" ->
            [type |-> "ConfigValidationError", field |-> err.field, message |-> err.message]
      [] err.kind = "Authentication" -> GeneralError("Authentication failed")
      [] err.kind = "InvalidToken" -> [type |-> "InvalidGithubToken"]
      [] err.kind = "ExpiredToken" -> [type |-> "ExpiredGithubToken"]
      [] err.kind = "Timeout" -> GeneralError("Request timeout")
      [] err.kind = "InvalidUrl" -> GeneralError("Invalid URL: " \o err.url)
      [] err.kind = "NotFound" -> GeneralError("Not found: " \o err.resource)
      [] err.kind = "RateLimit" -> GeneralError("Rate limit exceeded")

\* what the API call of a fetch ends in
Answered(value) == [ok |-> TRUE, value |-> value]
Failed(err) == [ok |-> FALSE, error |-> err]

\* what the remote API holds at a revision: one repository with one run
RemoteProjects(rev) ==
    <<ProjectDto(Widgets, rev, IF rev = 1 THEN Now - 8 * DayLen ELSE Now - 2 * DayLen)>>

RemotePipelines(project_id, rev) == <<PipelineDto(project_id, 1, rev)>>

RemoteJobs(rev) ==
    IF rev = 1 THEN <<JobDto(1, "InProgress")>>
    ELSE <<JobDto(2, "Success"), JobDto(1, "Success")>>

RemoteStatistics(rev) ==
    [commit_count |-> 12 + rev, repository_size |-> 2 * BytesPerKb,
     job_artifacts_size |-> 4 * BytesPerKb + 100]

\* fetch_projects, fetch_pipelines, fetch_all_jobs, fetch_repository_statistics:
\* the event a fetch sends when the API answers
FetchResult(request, rev) ==
    CASE request.type = "ProjectsFetch" -> ProjectsLoaded(RemoteProjects(rev))
      [] request.type = "PipelinesFetch" ->
            PipelinesLoaded(RemotePipelines(request.project_id, rev))
      [] request.type = "JobsFetch" ->
            JobsLoaded(request.project_id, request.pipeline_id, get_jobs(RemoteJobs(rev)))
      [] request.type = "ProjectStatisticsFetch" ->
            ProjectStatisticsLoaded(request.project_id, RemoteStatistics(rev))

IsFetchRequest(e) ==
    e.type \in {"ProjectsFetch", "PipelinesFetch", "JobsFetch", "ProjectStatisticsFetch"}

\* spawn_fetch_*: a task of its own, running
Spawned(request) ==
    [request |-> request, state |-> "running", called |-> FALSE, result |-> NoEvent,
     returned |-> None]

\* ProjectStore::apply: the match on the event
StoreApply(st, e) ==
    CASE e.type = "ProjectsLoaded" -> OnProjectsLoaded(st, e.projects)
      [] e.type = "PipelinesLoaded" -> OnPipelinesLoaded(st, e.pipelines)
      [] e.type = "JobsLoaded" -> OnJobsLoaded(st, e.project_id, e.pipeline_id, e.jobs)
      [] e.type = "ProjectStatisticsLoaded" ->
            OnProjectStatisticsLoaded(st, e.project_id, e.statistics)
      [] e.type = "ProjectSelected" -> OnProjectSelected(st, e.project_id)
      [] e.type = "ProjectDetailsOpen" -> OnProjectDetailsOpen(st, e.project_id)
      [] OTHER -> st

\* the events of a sequence, as the store puts them into the channel
QueuedAll(out) == [i \in DOMAIN out |-> Queued(out[i], 0)]

\* the project ids of the events of one type in a sequence
IdsOf(out, type) == {out[i].project_id : i \in {j \in DOMAIN out : out[j].type = type}}

\* the consumer takes the oldest event: the store and the notice service
\* apply it, and a fetch request starts its task
Consume ==
    /\ ~crashed
    /\ queue # <<>>
    /\ LET head == Head(queue)
           e == head.event
           st == StoreApply(StoreNow, e)
           answered == IF head.task = 0 THEN NoEvent ELSE tasks[head.task].request
       IN  /\ event' = e
           /\ projects' = st.projects
           /\ project_id_lookup' = st.lookup
           /\ sorted' = st.sorted
           /\ emitted' = st.out
           /\ crashed' = st.crashed
           /\ queue' = Tail(queue) \o QueuedAll(st.out)
           /\ tasks' = IF IsFetchRequest(e) THEN Append(tasks, Spawned(e)) ELSE tasks
           /\ jobs_arrivals' = IF e.type = "JobsLoaded" THEN Append(jobs_arrivals, head.task)
                               ELSE jobs_arrivals
           /\ stats_inflight' =
                (IF answered.type = "ProjectStatisticsFetch"
                 THEN stats_inflight \ {answered.project_id} ELSE stats_inflight)
                    \cup IdsOf(st.out, "ProjectStatisticsFetch")
           /\ stats_applied' =
                IF e.type = "ProjectStatisticsLoaded" /\ e.project_id \in Known
                THEN stats_applied \cup {e.project_id} ELSE stats_applied
           /\ select_fetched' =
                IF e.type = "ProjectSelected"
                THEN select_fetched \cup IdsOf(st.out, "PipelinesFetch") ELSE select_fetched
           /\ jobs_response' = <<>>
           /\ NoticesAre(NoticeApplyTo(NoticesNow, e))
    /\ UNCHANGED <<notice_log, remote, external, config_vars, bus_vars, periphery_vars>>

OthersThanSystem == <<store_vars, notice_vars, config_vars, bus_vars, periphery_vars>>

\* fetch_projects, fetch_pipelines, fetch_all_jobs, fetch_repository_statistics
\* up to the match on the answer: without a valid configuration the fetch
\* returns Ok(()) at once; else the API is called and answers, from what it
\* holds at that moment, or the call fails with this error
TaskAnsweredWith(i, outcome) ==
    /\ ~crashed
    /\ tasks[i].state = "running"
    /\ tasks' = [tasks EXCEPT ![i] =
            IF ~is_configured(config)
            THEN [@ EXCEPT !.state = "done", !.returned = Some(Answered("()"))]
            ELSE [@ EXCEPT
                    !.state = "answered",
                    !.called = TRUE,
                    !.returned = Some(outcome),
                    !.result = IF outcome.ok THEN FetchResult(tasks[i].request, remote)
                               ELSE AppErrorOf(GlomErrorFrom(outcome.error))]]
    /\ UNCHANGED <<queue, remote, external, jobs_arrivals, OthersThanSystem>>

\* the API answers, or the request fails with a server error
TaskAnswered(i) ==
    \E outcome \in {Answered("()"), Failed([kind |-> "GithubApi", message |-> "HTTP 500: boom"])} :
        TaskAnsweredWith(i, outcome)

\* the arms of the match: the fetch sends its event, Loaded or AppError, and
\* returns Ok(()) or Err(e)
TaskDispatch(i) ==
    /\ ~crashed
    /\ tasks[i].state = "answered"
    /\ tasks' = [tasks EXCEPT ![i].state = "done"]
    /\ queue' = Append(queue, Queued(tasks[i].result, i))
    /\ UNCHANGED <<remote, external, jobs_arrivals, OthersThanSystem>>

TaskStep == \E i \in DOMAIN tasks : TaskAnswered(i) \/ TaskDispatch(i)

\* the repository moves on: a new commit, the run and its jobs finished
RemoteAdvance ==
    /\ remote = 1
    /\ remote' = 2
    /\ UNCHANGED <<queue, tasks, external, jobs_arrivals, OthersThanSystem>>

\* an event from outside the loop enters the channel
External(e) ==
    /\ ~crashed
    /\ external < MaxExternal
    /\ external' = external + 1
    /\ queue' = Append(queue, Queued(e, 0))
    /\ UNCHANGED <<tasks, remote, jobs_arrivals, OthersThanSystem>>

\* GithubPoller::poll_projects: the timer starts the fetch itself
PollProjects ==
    /\ ~crashed
    /\ external < MaxExternal
    /\ external' = external + 1
    /\ tasks' = Append(tasks, Spawned(ProjectsFetch))
    /\ UNCHANGED <<queue, remote, jobs_arrivals, OthersThanSystem>>

\* initialize_app dispatches ProjectsFetch; afterwards the keys r, p and
\* Enter on the selected project, and the projects timer
NextSystem ==
    \/ event = NoEvent /\ queue = <<>> /\ tasks = <<>> /\ External(ProjectsFetch)
    \/ event # NoEvent /\ External(ProjectsFetch)
    \/ \E id \in Known : External(PipelinesFetch(id))
    \/ \E id \in Known : External(ProjectDetailsOpen(id))
    \/ event # NoEvent /\ PollProjects
    \/ Consume
    \/ TaskStep
    \/ RemoteAdvance

SpecSystem == Init /\ [][NextSystem]_vars

\* the consumer keeps taking events, and a fetch that was started completes
SpecSystemFair == SpecSystem /\ WF_vars(Consume) /\ WF_vars(TaskStep)

(***************************************************************************)
(* The fetch operations by themselves (client/service.rs): whatever the    *)
(* configuration the API was built with, and whatever error a call ends in.*)
(***************************************************************************)
\* the fetch operations started are counted up to this many
MaxFetchOps == 2

\* GithubApi::force_new: the API is built with a configuration as it is
ForceNew(c) ==
    /\ tasks = <<>>
    /\ config' = c
    /\ client' = ClientOf(c)
    /\ UNCHANGED <<client_readers, updater, fetchers, store_vars, notice_vars, system_vars,
                   bus_vars, periphery_vars>>

\* a fetch operation is called
FetchCalled(request) ==
    /\ Len(tasks) < MaxFetchOps
    /\ tasks' = Append(tasks, Spawned(request))
    /\ UNCHANGED <<queue, remote, external, jobs_arrivals, OthersThanSystem>>

NextFetch ==
    \/ \E c \in {ClientConfigOf(0), ClientConfigNoToken,
                  [ClientConfigOf(0) EXCEPT !.per_page = 0]} : ForceNew(c)
    \/ \E request \in {ProjectsFetch, PipelinesFetch(Widgets), JobsFetch(Widgets, 1),
                        ProjectStatisticsFetch(Widgets)} : FetchCalled(request)
    \/ \E i \in DOMAIN tasks :
            \E outcome \in {Answered("()")} \cup {Failed(err) : err \in ClientErrors} :
                TaskAnsweredWith(i, outcome)
    \/ \E i \in DOMAIN tasks : TaskDispatch(i)

SpecFetch == Init /\ [][NextFetch]_vars

(***************************************************************************)
(* The HTTP side of GithubApi (client/api.rs): responses, their            *)
(* classification, and the statistics operation with its sub-requests.     *)
(* A text that the code searches is a sequence of characters.              *)
(***************************************************************************)
\* str::contains
contains(text, pattern) ==
    \E i \in 1..(Len(text) - Len(pattern) + 1) :
        SubSeq(text, i, i + Len(pattern) - 1) = pattern

RECURSIVE Text(_)
\* the characters as one string
Text(chars) == IF chars = <<>> THEN "" ELSE Head(chars) \o Text(Tail(chars))

RECURSIVE Sum(_)
\* Iterator::sum
Sum(numbers) == IF numbers = <<>> THEN 0 ELSE Head(numbers) + Sum(Tail(numbers))

\* the error_description values of the error bodies
Descriptions ==
    {<<"t", "o", "k", "e", "n", " ", "e", "x", "p", "i", "r", "e", "d">>,
     <<"p", "a", "s", "t", " ", "e", "x", "p", "i", "r", "y">>,
     <<"u", "n", "e", "x", "p", "i", "r", "e", "d">>,
     <<"E", "x", "p", "i", "r", "e", "d">>,
     <<"b", "a", "d">>}

\* bodies that parse as GithubApiError, as GithubApiError2, and as neither
ErrorBodies ==
    {[shape |-> "error", error |-> error, error_description |-> description] :
        error \in {"invalid_token", "expired_token", "bad_credentials"},
        description \in {None} \cup {Some(d) : d \in Descriptions}}
    \cup {[shape |-> "message", message |-> "Bad credentials"],
          [shape |-> "text", text |-> "<html>"]}

\* bodies of the statistics endpoints
RepoBodies == {[shape |-> "repo", size |-> size] : size \in {0, 3}}
ContributorsBodies ==
    {[shape |-> "contributors", contributions |-> c] : c \in {<<>>, <<5, 7>>}}
CommitsBodies == {[shape |-> "commits", commits |-> c] : c \in {<<>>, <<"c1", "c2", "c3">>}}
ArtifactsBodies ==
    {[shape |-> "artifacts", size_in_bytes |-> a] : a \in {<<>>, <<100, 4096>>}}

SuccessBodies ==
    RepoBodies \cup ContributorsBodies \cup CommitsBodies \cup ArtifactsBodies
        \cup {[shape |-> "text", text |-> "<html>"]}

\* what the server can send; NoResponse is a request that got none
Responses ==
    {[status |-> 200, body |-> body] : body \in SuccessBodies}
    \cup {[status |-> status, body |-> body] :
            status \in {401, 404, 422, 429, 500}, body \in ErrorBodies}
    \cup {NoResponse}

\* the responses the sub-requests of the statistics operation draw from
StatisticsResponses ==
    {[status |-> 200, body |-> body] : body \in SuccessBodies}
    \cup {[status |-> 404, body |-> [shape |-> "message", message |-> "Not Found"]],
          [status |-> 401, body |-> [shape |-> "error", error |-> "expired_token",
                                     error_description |-> None]],
          NoResponse}

\* serde_json::from_str::<T>(body).is_ok(); Vec<serde_json::Value> takes any array
Parses(T, body) ==
    CASE T = "RepositoryDetailsDto" -> body.shape = "repo"
      [] T = "Vec<ContributorDto>" -> body.shape = "contributors"
      [] T = "Vec<serde_json::Value>" -> body.shape \in {"contributors", "commits"}
      [] T = "GitHubArtifactsResponse" -> body.shape = "artifacts"
      [] T = "GithubApiError" -> body.shape = "error"
      [] T = "GithubApiError2" -> body.shape = "message"

\* the body as the text a message quotes
BodyText(body) ==
    CASE body.shape = "text" -> body.text
      [] body.shape = "message" -> "{message: " \o body.message \o "}"
      [] OTHER -> "{" \o body.shape \o "}"

handle_error_responseMutGeneric(status, body) == Failed([kind |-> "Authentication"])

\* GithubApi::handle_error_response
handle_error_response(status, body) ==
    CASE status = 401 ->
            IF Parses("GithubApiError", body)
            THEN CASE body.error = "invalid_token" -> Failed([kind |-> "InvalidToken"])
                   [] body.error = "expired_token" -> Failed([kind |-> "ExpiredToken"])
                   [] OTHER ->
                        IF /\ is_some(body.error_description)
                           /\ \/ contains(unwrap(body.error_description),
                                          <<"e", "x", "p", "i", "r", "e", "d">>)
                              \/ contains(unwrap(body.error_description),
                                          <<"e", "x", "p", "i", "r", "y">>)
                        THEN Failed([kind |-> "ExpiredToken"])
                        ELSE Failed([kind |-> "Authentication"])
            ELSE Failed([kind |-> "Authentication"])
      [] status = 404 -> Failed([kind |-> "NotFound", resource |-> "Resource"])
      [] status = 422 ->
            Failed([kind |-> "GithubApi",
                    message |-> "Validation Failed: " \o
                        (IF Parses("GithubApiError2", body) THEN body.message
                         ELSE BodyText(body))])
      [] status = 429 -> Failed([kind |-> "RateLimit"])
      [] OTHER ->
            Failed([kind |-> "GithubApi",
                    message |-> "HTTP " \o ToString(status) \o ": " \o
                        (IF Parses("GithubApiError", body)
                         THEN body.error \o " " \o
                              (IF is_some(body.error_description)
                               THEN Text(unwrap(body.error_description)) ELSE "")
                         ELSE IF Parses("GithubApiError2", body) THEN body.message
                         ELSE BodyText(body))])

\* GithubApi::get_json after the request was sent: no response is an Http
\* error; else handle_response
get_json(T, response) ==
    IF response = NoResponse THEN Failed([kind |-> "Http", text |-> "connection refused"])
    ELSE IF response.status \in 200..299
         THEN IF Parses(T, response.body) THEN Answered(response.body)
              ELSE Failed([kind |-> "JsonParse", endpoint |-> T,
                           message |-> "Failed to parse response"])
         ELSE handle_error_response(response.status, response.body)

OthersThanApi ==
    <<store_vars, notice_vars, system_vars, config_vars, bus_vars, input, poller>>

\* a request has got its response
Requested(T, response) ==
    [api EXCEPT !.response = response, !.answer = Some(get_json(T, response))]

\* any request of the API outside the statistics operation
GetJson(T, response) ==
    /\ api.pc \in {"idle", "done"}
    /\ api' = [ApiIdle EXCEPT !.response = response, !.answer = Some(get_json(T, response))]
    /\ UNCHANGED OthersThanApi

\* Vec::len of a parsed array
ArrayLen(body) ==
    IF body.shape = "contributors" THEN Len(body.contributions) ELSE Len(body.commits)

get_commit_count_fallbackMutZero(answer) == 0

\* GithubApi::get_commit_count_fallback, from the answer to its request
get_commit_count_fallback(answer) == IF answer.ok THEN ArrayLen(answer.value) ELSE 0

\* GithubApi::get_commit_count, from the answers to its request and to the
\* fallback's
get_commit_count(contributors, commits) ==
    IF contributors.ok THEN Sum(contributors.value.contributions)
    ELSE get_commit_count_fallback(unwrap(commits))

\* GithubApi::get_total_artifacts_size, from the answer to its request
get_total_artifacts_size(answer) ==
    IF answer.ok THEN Sum(answer.value.size_in_bytes) ELSE 0

\* get_repository_statistics is called
StatisticsBegin ==
    /\ api.pc \in {"idle", "done"}
    /\ api' = [ApiIdle EXCEPT !.pc = "repo"]
    /\ UNCHANGED OthersThanApi

\* get_repository_statistics: the repository request; `?` returns its error
StatisticsRepo(response) ==
    /\ api.pc = "repo"
    /\ LET answer == get_json("RepositoryDetailsDto", response)
       IN  api' = [Requested("RepositoryDetailsDto", response) EXCEPT
                    !.repo_details = Some(answer),
                    !.pc = IF answer.ok THEN "contributors" ELSE "done",
                    !.result = IF answer.ok THEN None ELSE Some(answer)]
    /\ UNCHANGED OthersThanApi

\* get_commit_count: the contributors request
StatisticsContributors(response) ==
    /\ api.pc = "contributors"
    /\ LET answer == get_json("Vec<ContributorDto>", response)
       IN  api' = [Requested("Vec<ContributorDto>", response) EXCEPT
                    !.contributors = Some(answer),
                    !.pc = IF answer.ok THEN "artifacts" ELSE "commits"]
    /\ UNCHANGED OthersThanApi

\* get_commit_count_fallback: the commits request
StatisticsCommits(response) ==
    /\ api.pc = "commits"
    /\ api' = [Requested("Vec<serde_json::Value>", response) EXCEPT
                !.commits = Some(get_json("Vec<serde_json::Value>", response)),
                !.pc = "artifacts"]
    /\ UNCHANGED OthersThanApi

\* get_total_artifacts_size: the artifacts request; then
\* get_repository_statistics returns the StatisticsDto
StatisticsArtifacts(response) ==
    /\ api.pc = "artifacts"
    /\ LET answer == get_json("GitHubArtifactsResponse", response)
       IN  api' = [Requested("GitHubArtifactsResponse", response) EXCEPT
                    !.artifacts = Some(answer),
                    !.pc = "done",
                    !.result = Some(Answered(
                        [commit_count |->
                            get_commit_count(unwrap(api.contributors), api.commits),
                         repository_size |->
                            unwrap(api.repo_details).value.size * BytesPerKb,
                         job_artifacts_size |-> get_total_artifacts_size(answer)]))]
    /\ UNCHANGED OthersThanApi

NextApi ==
    \/ \E T \in {"RepositoryDetailsDto", "Vec<ContributorDto>"}, response \in Responses :
            GetJson(T, response)
    \/ StatisticsBegin
    \/ \E response \in StatisticsResponses : StatisticsRepo(response)
    \/ \E response \in StatisticsResponses : StatisticsContributors(response)
    \/ \E response \in StatisticsResponses : StatisticsCommits(response)
    \/ \E response \in StatisticsResponses : StatisticsArtifacts(response)

SpecApi == Init /\ [][NextApi]_vars

(***************************************************************************)
(* The download of a job's log (client/api.rs, client/service.rs).         *)
(***************************************************************************)
JobLogFetch(project_id, job_id) ==
    [type |-> "JobLogFetch", project_id |-> project_id, job_id |-> job_id]

JobLogDownloaded(project_id, job_id, trace) ==
    [type |-> "JobLogDownloaded", project_id |-> project_id, job_id |-> job_id,
     trace |-> trace]

\* GithubApi::get_job_trace after the request was sent: no response is an
\* Http error; else the text of the body, whatever the status
get_job_trace(response) ==
    IF response = NoResponse THEN Failed([kind |-> "Http", text |-> "connection refused"])
    ELSE Answered(BodyText(response.body))

\* GithubService::download_job_log: the events it dispatches, given the
\* configuration and the response to the request of get_job_trace
download_job_log(c, project_id, job_id, response) ==
    IF ~is_configured(c) THEN <<>>
    ELSE LET answer == get_job_trace(response)
         IN  IF answer.ok
             THEN <<JobLogDownloaded(project_id, job_id, answer.value)>>
             ELSE <<AppErrorOf(GlomErrorFrom(answer.error))>>

\* download_job_log is called and returns; unconfigured, no request is sent
DownloadJobLog(project_id, job_id, response) ==
    /\ event' = JobLogFetch(project_id, job_id)
    /\ emitted' = download_job_log(config, project_id, job_id, response)
    /\ api' = IF is_configured(config)
              THEN [ApiIdle EXCEPT !.response = response,
                                   !.answer = Some(get_job_trace(response))]
              ELSE ApiIdle
    /\ UNCHANGED <<projects, project_id_lookup, sorted, crashed, stats_inflight,
                   stats_applied, select_fetched, jobs_response, notice_vars, system_vars,
                   config_vars, bus_vars, input, poller>>

NextJobLog ==
    \/ \E c \in {ClientConfigOf(0), ClientConfigNoToken} : ForceNew(c)
    \/ \E job_id \in 1..2, response \in Responses :
            DownloadJobLog(Widgets, job_id, response)

SpecJobLog == Init /\ [][NextJobLog]_vars

(***************************************************************************)
(* The modal input stack (input/multiplexer.rs, input/processor/*.rs).     *)
(* input.processors is the Vec of handlers, its last element the top;      *)
(* input.hooks is the history of on_push/on_pop calls; each handler counts *)
(* in `received` the events applied to it.                                 *)
(***************************************************************************)
InputKey(key) == [type |-> "InputKey", key |-> key]
PipelineSelected(pipeline_id) == [type |-> "PipelineSelected", pipeline_id |-> pipeline_id]
PipelineActionsOpen(project_id, pipeline_id) ==
    [type |-> "PipelineActionsOpen", project_id |-> project_id, pipeline_id |-> pipeline_id]
Plain(type) == [type |-> type]

\* NormalModeProcessor::new, ProjectDetailsProcessor::new
NormalModeProcessor ==
    [kind |-> "Normal", project_id |-> None, selected |-> None, received |-> 0]
ProjectDetailsProcessor(project_id) ==
    [kind |-> "ProjectDetails", project_id |-> Some(project_id), selected |-> None,
     received |-> 0]
\* PipelineActionsProcessor::new, ConfigProcessor::new
PopupProcessor(kind) ==
    [kind |-> kind, project_id |-> None, selected |-> None, received |-> 0]

\* NormalModeProcessor::process
NormalProcess(p, key) ==
    CASE key \in {"Enter", "o"} ->
            IF is_some(p.selected) THEN <<ProjectDetailsOpen(unwrap(p.selected))>> ELSE <<>>
      [] key = "a" -> <<Plain("NotificationLast")>>
      [] key = "c" -> <<Plain("ConfigOpen")>>
      [] key \in {"f", "/"} -> <<Plain("FilterMenuShow")>>
      [] key = "p" ->
            IF is_some(p.selected) THEN <<PipelinesFetch(unwrap(p.selected))>> ELSE <<>>
      [] key = "q" -> <<Plain("AppExit")>>
      [] key = "r" -> <<ProjectsFetch>>
      [] key = "w" ->
            IF is_some(p.selected)
            THEN <<[type |-> "ProjectOpenUrl", project_id |-> unwrap(p.selected)]>>
            ELSE <<>>
      [] key = "F12" -> <<Plain("ScreenCapture")>>
      [] key \in {"Up", "k"} -> <<Plain("ProjectPrevious")>>
      [] key \in {"Down", "j"} -> <<Plain("ProjectNext")>>
      [] key = "Esc" -> <<Plain("FilterClear")>>
      [] OTHER -> <<>>

\* NormalModeProcessor::process_filter_input
NormalProcessFilterInput(key) ==
    CASE key = "Enter" -> <<Plain("FilterMenuClose")>>
      [] key = "Esc" ->
            <<[type |-> "ApplyTemporaryFilter", filter |-> None], Plain("FilterMenuClose")>>
      [] key = "Backspace" -> <<Plain("FilterInputBackspace")>>
      [] key \in {"a", "c", "f", "/", "p", "q", "r", "w", "o", "k", "j"} ->
            <<[type |-> "FilterInputChar", char |-> key]>>
      [] OTHER -> <<>>

\* ProjectDetailsProcessor::process; the selection keys act on the widgets
ProjectDetailsProcess(p, key) ==
    CASE key \in {"Esc", "q"} -> <<Plain("ProjectDetailsClose")>>
      [] key \in {"Enter", "o"} ->
            IF is_some(p.selected)
            THEN <<PipelineActionsOpen(unwrap(p.project_id), unwrap(p.selected))>>
            ELSE <<>>
      [] key = "F12" -> <<Plain("ScreenCapture")>>
      [] OTHER -> <<>>

\* the close event of a popup handler
CloseOf(kind) ==
    CASE kind = "ProjectDetails" -> "ProjectDetailsClose"
      [] kind = "PipelineActions" -> "PipelineActionsClose"
      [] kind = "Config" -> "ConfigClose"

\* PipelineActionsProcessor, ConfigProcessor: Esc closes
PopupProcess(p, key) == IF key = "Esc" THEN <<Plain(CloseOf(p.kind))>> ELSE <<>>

\* InputProcessor::apply of each handler: the handler afterwards and the
\* events it sent
ProcessorApply(p, e, filter_input_active) ==
    LET counted == [p EXCEPT !.received = @ + 1]
    IN  CASE p.kind = "Normal" /\ e.type = "ProjectSelected" ->
                [processor |-> [counted EXCEPT !.selected = Some(e.project_id)], out |-> <<>>]
          [] p.kind = "Normal" /\ e.type = "InputKey" ->
                [processor |-> counted,
                 out |-> IF filter_input_active THEN NormalProcessFilterInput(e.key)
                         ELSE NormalProcess(p, e.key)]
          [] p.kind = "ProjectDetails" /\ e.type = "PipelineSelected" ->
                [processor |-> [counted EXCEPT !.selected = Some(e.pipeline_id)],
                 out |-> <<>>]
          [] p.kind = "ProjectDetails" /\ e.type = "InputKey" ->
                [processor |-> counted, out |-> ProjectDetailsProcess(p, e.key)]
          [] p.kind \in {"PipelineActions", "Config"} /\ e.type = "InputKey" ->
                [processor |-> counted, out |-> PopupProcess(p, e.key)]
          [] OTHER -> [processor |-> counted, out |-> <<>>]

\* InputMultiplexer::push
push(in, processor) ==
    [in EXCEPT !.processors = Append(@, processor),
               !.hooks = Append(@, [hook |-> "on_push", kind |-> processor.kind])]

\* InputMultiplexer::pop_processor
pop_processor(in) ==
    IF in.processors = <<>> THEN in
    ELSE [in EXCEPT !.hooks = Append(@, [hook |-> "on_pop",
                                          kind |-> in.processors[Len(in.processors)].kind]),
                    !.processors = SubSeq(@, 1, Len(@) - 1)]

\* InputMultiplexer::apply, the match: the open and close events
Intercepted(in, e) ==
    CASE e.type = "ProjectDetailsOpen" -> push(in, ProjectDetailsProcessor(e.project_id))
      [] e.type = "PipelineActionsOpen" -> push(in, PopupProcessor("PipelineActions"))
      [] e.type = "ConfigOpen" -> push(in, PopupProcessor("Config"))
      [] e.type \in {"ProjectDetailsClose", "PipelineActionsClose", "ConfigClose"} ->
            pop_processor(in)
      [] OTHER -> in

DeliveredMutAll(processors, e, filter_input_active) ==
    [processors |->
        [i \in DOMAIN processors |->
            ProcessorApply(processors[i], e, filter_input_active).processor],
     out |-> IF processors = <<>> THEN <<>>
             ELSE ProcessorApply(processors[Len(processors)], e, filter_input_active).out]

\* InputMultiplexer::apply, the end: the event goes to processors.last_mut()
Delivered(processors, e, filter_input_active) ==
    IF processors = <<>> THEN [processors |-> processors, out |-> <<>>]
    ELSE LET top == Len(processors)
             applied == ProcessorApply(processors[top], e, filter_input_active)
         IN  [processors |-> [processors EXCEPT ![top] = applied.processor],
              out |-> applied.out]

\* InputMultiplexer::apply
MuxApply(in, e, filter_input_active) ==
    LET after == Intercepted(in, e)
        delivered == Delivered(after.processors, e, filter_input_active)
    IN  [mux |-> [after EXCEPT !.processors = delivered.processors,
                               !.applied = @ + 1],
         out |-> delivered.out]

\* the keys and selection events from outside are counted up to this many
MaxInput == 4

OthersThanInput ==
    <<store_vars, notice_vars, tasks, remote, jobs_arrivals, config_vars, bus_vars, api,
      poller>>

\* the application pushes the normal-mode handler when it starts
InputStart ==
    /\ input.hooks = <<>>
    /\ input' = push(input, NormalModeProcessor)
    /\ UNCHANGED <<queue, external, OthersThanInput>>

\* the input thread or the widgets send an event
InputSent(e) ==
    /\ input.hooks # <<>>
    /\ external < MaxInput
    /\ external' = external + 1
    /\ queue' = Append(queue, Queued(e, 0))
    /\ UNCHANGED <<input, OthersThanInput>>

\* the consumer hands the next event of the channel to the input stack; what
\* the handler sends goes to the end of the channel
InputConsume ==
    /\ queue # <<>>
    /\ \E filter_input_active \in BOOLEAN :
        LET applied == MuxApply(input, Head(queue).event, filter_input_active)
        IN  /\ input' = applied.mux
            /\ queue' = Tail(queue) \o QueuedAll(applied.out)
    /\ UNCHANGED <<external, OthersThanInput>>

NextInput ==
    \/ InputStart
    \/ \E key \in {"Enter", "Esc", "c", "j"} : InputSent(InputKey(key))
    \/ \E e \in {ProjectSelected(Widgets), PipelineSelected(1)} : InputSent(e)
    \/ InputConsume

SpecInput == Init /\ [][NextInput]_vars

(***************************************************************************)
(* The background scheduler (client/poller.rs). A task runs from one await *)
(* to the next in one step; a timer that is being awaited may elapse at    *)
(* any moment. poller.signalled is the set of receivers of the shutdown    *)
(* channel that have a message to receive.                                 *)
(***************************************************************************)
JobsActiveFetch == [type |-> "JobsActiveFetch"]

\* the ticks of each timer are counted up to this many
MaxTicks == 2

OthersThanPoller ==
    <<store_vars, notice_vars, remote, external, jobs_arrivals, config_vars, bus_vars, api,
      input>>

\* the receivers of the shutdown channel that exist: the poller's own from
\* new() until start() returns, and one per task from start() on
Receivers ==
    CASE poller.start = "new" -> {"start"}
      [] poller.start = "returned" -> {}
      [] OTHER -> {"start", "projects", "jobs"}

abortMutNoEffect(task) == task

\* JoinHandle::abort: a task that is waiting is cancelled; one that has
\* ended stays ended
abort(task) == IF task = "sleeping" THEN "aborted" ELSE task

poll_active_jobs_tickMutTwice(channel) ==
    Append(Append(channel, Queued(JobsActiveFetch, 0)), Queued(JobsActiveFetch, 0))

\* poll_active_jobs, the sleep branch: sender.dispatch(JobsActiveFetch)
poll_active_jobs_tick(channel) == Append(channel, Queued(JobsActiveFetch, 0))

\* GithubPoller::start up to its await: both tasks are spawned, each with a
\* new receiver, and enter their select!
PollerStart ==
    /\ poller.start = "new"
    /\ poller' = [poller EXCEPT !.start = "waiting", !.projects_task = "sleeping",
                                !.jobs_task = "sleeping"]
    /\ UNCHANGED <<queue, tasks, OthersThanPoller>>

\* shutdown(), or send() on a shutdown_sender(): every receiver gets the signal
ShutdownSent ==
    /\ poller' = [poller EXCEPT !.sent = TRUE, !.signalled = @ \cup Receivers]
    /\ UNCHANGED <<queue, tasks, OthersThanPoller>>

\* poll_projects, the sleep branch: one spawn_fetch_projects
ProjectsTick ==
    /\ poller.projects_task = "sleeping"
    /\ poller.projects_ticks < MaxTicks
    /\ tasks' = Append(tasks, Spawned(ProjectsFetch))
    /\ poller' = [poller EXCEPT !.projects_ticks = @ + 1]
    /\ UNCHANGED <<queue, OthersThanPoller>>

\* poll_active_jobs, the sleep branch
JobsTick ==
    /\ poller.jobs_task = "sleeping"
    /\ poller.jobs_ticks < MaxTicks
    /\ queue' = poll_active_jobs_tick(queue)
    /\ poller' = [poller EXCEPT !.jobs_ticks = @ + 1]
    /\ UNCHANGED <<tasks, OthersThanPoller>>

\* poll_projects, the shutdown branch: break
ProjectsStop ==
    /\ poller.projects_task = "sleeping"
    /\ "projects" \in poller.signalled
    /\ poller' = [poller EXCEPT !.projects_task = "ended", !.signalled = @ \ {"projects"}]
    /\ UNCHANGED <<queue, tasks, OthersThanPoller>>

\* poll_active_jobs, the shutdown branch: break
JobsStop ==
    /\ poller.jobs_task = "sleeping"
    /\ "jobs" \in poller.signalled
    /\ poller' = [poller EXCEPT !.jobs_task = "ended", !.signalled = @ \ {"jobs"}]
    /\ UNCHANGED <<queue, tasks, OthersThanPoller>>

\* GithubPoller::start from recv() to the sleep: both tasks are aborted
PollerAborts ==
    /\ poller.start = "waiting"
    /\ "start" \in poller.signalled
    /\ poller' = [poller EXCEPT !.start = "grace",
                                !.signalled = @ \ {"start"},
                                !.projects_task = abort(@),
                                !.jobs_task = abort(@)]
    /\ UNCHANGED <<queue, tasks, OthersThanPoller>>

\* GithubPoller::start after the sleep of 100 ms: Ok(()); the poller and its
\* receiver are dropped
PollerReturns ==
    /\ poller.start = "grace"
    /\ poller' = [poller EXCEPT !.start = "returned", !.signalled = {}]
    /\ UNCHANGED <<queue, tasks, OthersThanPoller>>

NextPoller ==
    \/ PollerStart
    \/ ShutdownSent
    \/ ProjectsTick
    \/ JobsTick
    \/ ProjectsStop
    \/ JobsStop
    \/ PollerAborts
    \/ PollerReturns

SpecPoller == Init /\ [][NextPoller]_vars

\* the runtime goes on polling start() and the tasks that can run
SpecPollerFair ==
    /\ SpecPoller
    /\ WF_vars(PollerAborts)
    /\ WF_vars(PollerReturns)
    /\ WF_vars(ProjectsStop)
    /\ WF_vars(JobsStop)

(***************************************************************************)
(* Two repositories whose results arrive interleaved.                      *)
(***************************************************************************)
\* the project list with both repositories, in either order
BothProjects ==
    {<<ProjectDto(Widgets, 1, Now - 8 * DayLen), ProjectDto(Gears, 1, Now - 2 * DayLen)>>,
     <<ProjectDto(Gears, 1, Now - 2 * DayLen), ProjectDto(Widgets, 1, Now - 8 * DayLen)>>}

\* pages of runs as get_pipelines answers them: never empty here
RunBatches(project_id) ==
    {<<PipelineDto(project_id, 1, 1)>>,
     <<PipelineDto(project_id, 2, 1), PipelineDto(project_id, 1, 2)>>}

\* the jobs arrays of two responses
JobPages == {<<JobDto(1, "InProgress")>>, <<JobDto(2, "Success"), JobDto(1, "InProgress")>>}

\* the result events for one repository: PipelinesLoaded, JobsLoaded,
\* ProjectStatisticsLoaded and ProjectSelected
ResultEvents(project_id) ==
    {PipelinesLoaded(b) : b \in RunBatches(project_id)}
        \cup {JobsLoaded(project_id, pipeline_id, get_jobs(r)) :
                pipeline_id \in PipelineIds, r \in JobPages}
        \cup {ProjectStatisticsLoaded(project_id, statistics) : statistics \in StatisticsDtos}
        \cup {ProjectSelected(project_id)}

NextOrder ==
    \/ \E dtos \in BothProjects : projects = <<>> /\ Direct(ApplyProjectsLoaded(dtos))
    \/ \E id \in Known : \E dtos \in RunBatches(id) : Direct(ApplyPipelinesLoaded(dtos))
    \/ \E id \in Known :
            Direct(ApplyJobsLoaded(id, 1, <<JobDto(2, "Success"), JobDto(1, "InProgress")>>))
    \/ \E id \in Known : Direct(ApplyProjectSelected(id))
    \/ \E id \in Known : Direct(ApplyProjectDetailsOpen(id))
    \/ \E id \in Known : Direct(ApplyProjectStatisticsLoaded(id, RemoteStatistics(1)))

SpecOrder == Init /\ [][NextOrder]_vars

(***************************************************************************)
(* A configuration update running beside fetches (client/api.rs).  The     *)
(* threads interleave at the lock operations.                              *)
(***************************************************************************)
MaxConfigUpdates == 1

\* get_jobs: format!("{}/repos/{}/actions/runs/{}/jobs", config.base_url, ..)
JobsUrl(base_url, project_id, pipeline_id) ==
    base_url \o "/repos/" \o project_id \o "/actions/runs/" \o ToString(pipeline_id)
        \o "/jobs"

\* authenticated_request: the request a client builds for a URL and a token
RequestOf(c, url, private_token) ==
    [url |-> url, authorization |-> "token " \o private_token, timeout |-> c.timeout]

OthersThanConfig == <<store_vars, notice_vars, system_vars, bus_vars, periphery_vars>>

\* update_config, up to the two writes: validate, whose error `?` returns,
\* and build the client; arg is the configuration passed, returned the result
UpdateConfigBegin(c) ==
    /\ updater.pc = "idle"
    /\ updater.done < MaxConfigUpdates
    /\ updater' = IF validate(c)
                  THEN [updater EXCEPT !.pc = "built", !.pending = Some(c),
                                       !.arg = Some(c), !.returned = None]
                  ELSE [updater EXCEPT !.done = @ + 1, !.arg = Some(c),
                                       !.returned = Some("Err")]
    /\ UNCHANGED <<config, client, client_readers, fetchers, OthersThanConfig>>

\* *self.config.write().unwrap() = config
UpdateConfigWriteConfig ==
    /\ updater.pc = "built"
    /\ config' = unwrap(updater.pending)
    /\ updater' = [updater EXCEPT !.pc = "config_written"]
    /\ UNCHANGED <<client, client_readers, fetchers, OthersThanConfig>>

\* *self.client.write().unwrap() = client: waits for the read guards
UpdateConfigWriteClient ==
    /\ updater.pc = "config_written"
    /\ client_readers = {}
    /\ client' = ClientOf(unwrap(updater.pending))
    /\ updater' = [pc |-> "idle", pending |-> None, done |-> updater.done + 1,
                   arg |-> updater.arg, returned |-> Some("Ok")]
    /\ UNCHANGED <<config, client_readers, fetchers, OthersThanConfig>>

\* fetch_all_jobs: the is_configured() test
FetchIsConfigured(f) ==
    /\ fetchers[f].pc = "idle"
    /\ fetchers' = [fetchers EXCEPT ![f].pc = IF is_configured(config) THEN "configured"
                                              ELSE "skipped"]
    /\ UNCHANGED <<config, client, client_readers, updater, OthersThanConfig>>

\* get_jobs: the URL, from the base URL read under a guard of its own
FetchBuildUrl(f) ==
    /\ fetchers[f].pc = "configured"
    /\ fetchers' = [fetchers EXCEPT ![f].pc = "url",
                                    ![f].url = Some(JobsUrl(config.base_url, Widgets, 1))]
    /\ UNCHANGED <<config, client, client_readers, updater, OthersThanConfig>>

\* authenticated_request: let client = self.client.read().unwrap()
FetchReadClient(f) ==
    /\ fetchers[f].pc = "url"
    /\ client_readers' = client_readers \cup {f}
    /\ fetchers' = [fetchers EXCEPT ![f].pc = "client", ![f].client = Some(client)]
    /\ UNCHANGED <<config, client, updater, OthersThanConfig>>

\* authenticated_request: the token, read from the configuration, and the
\* request; the guard on the client ends with the function
FetchBuildRequest(f) ==
    /\ fetchers[f].pc = "client"
    /\ client_readers' = client_readers \ {f}
    /\ fetchers' = [fetchers EXCEPT
            ![f].pc = "built",
            ![f].request = Some(RequestOf(unwrap(fetchers[f].client),
                                          unwrap(fetchers[f].url), config.private_token))]
    /\ UNCHANGED <<config, client, updater, OthersThanConfig>>

NextConfig ==
    \/ UpdateConfigBegin(ClientConfigOf(updater.done + 1))
    \/ UpdateConfigBegin(ClientConfigNoToken)
    \/ UpdateConfigWriteConfig
    \/ UpdateConfigWriteClient
    \/ \E f \in Fetchers : FetchIsConfigured(f)
    \/ \E f \in Fetchers : FetchBuildUrl(f)
    \/ \E f \in Fetchers : FetchReadClient(f)
    \/ \E f \in Fetchers : FetchBuildRequest(f)

SpecConfig == Init /\ [][NextConfig]_vars

(***************************************************************************)
(* The event channel and its handles (dispatcher.rs, stores.rs, event.rs). *)
(***************************************************************************)
\* the channel is unbounded; the model stops sending at this length
MaxQueue == 3

OthersThanBus ==
    <<store_vars, notice_vars, tasks, remote, external, jobs_arrivals, config_vars,
      periphery_vars>>

\* impl Dispatcher for mpsc::Sender<GlomEvent>: let _ = self.send(event)
SenderDispatch(e) ==
    /\ Len(queue) < MaxQueue
    /\ queue' = IF receiver_alive THEN Append(queue, Queued(e, 0)) ELSE queue
    /\ UNCHANGED <<receiver_alive, panicked, OthersThanBus>>

\* impl Dispatcher for ProjectStore: self.sender.send(event).unwrap()
StoreDispatch(e) ==
    /\ Len(queue) < MaxQueue
    /\ "store" \notin panicked
    /\ IF receiver_alive
       THEN queue' = Append(queue, Queued(e, 0)) /\ UNCHANGED panicked
       ELSE panicked' = panicked \cup {"store"} /\ UNCHANGED queue
    /\ UNCHANGED <<receiver_alive, OthersThanBus>>

\* EventHandler::apply_event: sender.send(InputKey(e)) .expect("failed to send event")
InputKeySend ==
    /\ Len(queue) < MaxQueue
    /\ "input" \notin panicked
    /\ IF receiver_alive
       THEN queue' = Append(queue, Queued([type |-> "InputKey", key |-> "Enter"], 0))
            /\ UNCHANGED panicked
       ELSE panicked' = panicked \cup {"input"} /\ UNCHANGED queue
    /\ UNCHANGED <<receiver_alive, OthersThanBus>>

\* EventHandler::next: the consumer takes the oldest event
Receive ==
    /\ receiver_alive
    /\ queue # <<>>
    /\ queue' = Tail(queue)
    /\ UNCHANGED <<receiver_alive, panicked, OthersThanBus>>

\* the EventHandler, and with it the receiver and what it holds, is dropped
ReceiverDropped ==
    /\ receiver_alive
    /\ receiver_alive' = FALSE
    /\ queue' = <<>>
    /\ UNCHANGED <<panicked, OthersThanBus>>

NextBus ==
    \/ \E e \in {[type |-> "AppTick"], [type |-> "JobsActiveFetch"],
                  AppErrorOf([type |-> "GeneralError", message |-> "boom"])} :
            SenderDispatch(e)
    \/ \E e \in {PipelinesFetch(Widgets), ProjectSelected(Widgets)} : StoreDispatch(e)
    \/ InputKeySend
    \/ Receive
    \/ ReceiverDropped

SpecBus == Init /\ [][NextBus]_vars

(***************************************************************************)
(* Properties.                                                             *)
(***************************************************************************)
\* the events of one type among those sent, in send order
OfType(out, type) == SelectSeqBy(out, [i \in DOMAIN out |-> out[i].type = type])

\* the stored project with this id (the id must be a key of the lookup)
Stored(lookup, ps, id) == ps[lookup[id] + 1]

\* the position of the first DTO of a batch that names this repository
FirstOf(dtos, name) ==
    CHOOSE i \in DOMAIN dtos : dtos[i].full_name = name
                               /\ \A j \in 1..(i - 1) : dtos[j].full_name # name

\* the position of the last DTO of a batch that names this repository
LastOf(dtos, name) ==
    CHOOSE i \in DOMAIN dtos : dtos[i].full_name = name
                               /\ \A j \in (i + 1)..Len(dtos) : dtos[j].full_name # name

Names(dtos) == {dtos[i].full_name : i \in DOMAIN dtos}

\* C1: whatever ProjectsLoaded batches were applied (ids repeated within a
\* batch or across batches included), the id lookup has as many entries as
\* `projects` has elements, every value is an index into `projects`, and the
\* project at index lookup[k] has id k.
C1_LookupConsistent ==
    /\ Cardinality(DOMAIN project_id_lookup) = Len(projects)
    /\ \A k \in DOMAIN project_id_lookup :
        /\ project_id_lookup[k] \in 0..(Len(projects) - 1)
        /\ projects[project_id_lookup[k] + 1].id = k

\* C1 witness: a batch that names the same repository twice has been applied
\* to a store that holds two repositories.
C1_Witness ==
    /\ event.type = "ProjectsLoaded"
    /\ Len(event.projects) = 2
    /\ event.projects[1].full_name = event.projects[2].full_name
    /\ Len(projects) = 2
    /\ ~crashed

\* C4: a ProjectsLoaded that brings a repository the store does not hold yet,
\* last active at most 7 days ago, leaves it stored with pipelines Some(empty)
\* and sends PipelinesFetch for it while the event is handled.
C4_NewRecentProjectIsFetched ==
    [][event'.type = "ProjectsLoaded" =>
        \A name \in Names(event'.projects) :
            (/\ name \notin DOMAIN project_id_lookup
             /\ Now - event'.projects[FirstOf(event'.projects, name)].updated_at
                    <= 7 * DayLen)
            => /\ name \in DOMAIN project_id_lookup'
               /\ Stored(project_id_lookup', projects', name).pipelines = Some(<<>>)
               /\ \E i \in DOMAIN emitted' : emitted'[i] = PipelinesFetch(name)]_vars

\* C4 witness: the first batch ever (it is the one answered with
\* ProjectSelected) brought Widgets, last active 2 days ago; Widgets is stored
\* with an empty pipeline list and its PipelinesFetch was sent.
C4_Witness ==
    /\ event.type = "ProjectsLoaded"
    /\ OfType(emitted, "ProjectSelected") # <<>>
    /\ event.projects = <<ProjectDto(Widgets, 2, Now - 2 * DayLen)>>
    /\ Widgets \in DOMAIN project_id_lookup
    /\ Stored(project_id_lookup, projects, Widgets).pipelines = Some(<<>>)
    /\ \E i \in DOMAIN emitted : emitted[i] = PipelinesFetch(Widgets)

\* C10: a non-empty ProjectsLoaded applied to a store without projects sends
\* exactly one ProjectSelected, after everything else, for a stored project
\* whose last activity is the latest after the merge; a ProjectsLoaded applied
\* to a store that holds a project sends no ProjectSelected.
C10_FirstBatchSelectsLatest ==
    [][event'.type = "ProjectsLoaded" =>
        LET selected == OfType(emitted', "ProjectSelected")
        IN  /\ (projects = <<>> /\ event'.projects # <<>>) =>
                /\ Len(selected) = 1
                /\ emitted'[Len(emitted')] = selected[1]
                /\ selected[1].project_id \in DOMAIN project_id_lookup'
                /\ \A i \in DOMAIN projects' :
                    last_activity(Stored(project_id_lookup', projects',
                                         selected[1].project_id))
                        >= last_activity(projects'[i])
            /\ projects # <<>> => selected = <<>>]_vars

\* C10 witness: the first batch brought two repositories, the second of them
\* the more recently active one, and that one was selected.
C10_Witness ==
    /\ event.type = "ProjectsLoaded"
    /\ Len(projects) = 2
    /\ last_activity(projects[2]) > last_activity(projects[1])
    /\ OfType(emitted, "ProjectSelected") = <<ProjectSelected(projects[2].id)>>

\* the pipeline with this id in an Option<Vec<Pipeline>>, as an Option
PipelineOf(pipelines, id) ==
    IF is_some(pipelines) /\ FindPipeline(unwrap(pipelines), id) # 0
    THEN Some(unwrap(pipelines)[FindPipeline(unwrap(pipelines), id)])
    ELSE None

\* the project id a PipelinesLoaded batch is for (the batch must not be empty)
BatchProject(dtos) == dtos[1].project_id

\* C2: PipelinesLoaded for a stored project: every incoming pipeline whose id
\* the project already stores with jobs and a commit is stored afterwards
\* with those same jobs and that same commit, and with the incoming status,
\* branch, created and updated timestamps.
C2_MergeKeepsJobsAndCommit ==
    [][(/\ event'.type = "PipelinesLoaded"
        /\ event'.pipelines # <<>>
        /\ BatchProject(event'.pipelines) \in DOMAIN project_id_lookup) =>
        LET id == BatchProject(event'.pipelines)
            old == Stored(project_id_lookup, projects, id)
            new == Stored(project_id_lookup', projects', id)
        IN  \A i \in DOMAIN event'.pipelines :
                LET dto == event'.pipelines[i]
                    was == PipelineOf(old.pipelines, dto.id)
                    now == PipelineOf(new.pipelines, dto.id)
                IN  (/\ is_some(was)
                     /\ is_some(unwrap(was).jobs)
                     /\ is_some(unwrap(was).commit))
                    => /\ is_some(now)
                       /\ unwrap(now).jobs = unwrap(was).jobs
                       /\ unwrap(now).commit = unwrap(was).commit
                       /\ unwrap(now).status = dto.status
                       /\ unwrap(now).branch = PipelineFrom(dto).branch
                       /\ unwrap(now).created_at = dto.created_at
                       /\ unwrap(now).updated_at = dto.updated_at]_vars

\* C2 witness: a PipelinesLoaded has just reported run 1 as finished; the run
\* is stored as Success on the branch "unknown", and still carries the jobs
\* and the commit it had.
C2_Witness ==
    /\ event.type = "PipelinesLoaded"
    /\ \E i \in DOMAIN event.pipelines : event.pipelines[i] = PipelineDto(Widgets, 1, 2)
    /\ Widgets \in DOMAIN project_id_lookup
    /\ LET now == PipelineOf(Stored(project_id_lookup, projects, Widgets).pipelines, 1)
       IN  /\ is_some(now)
           /\ unwrap(now).status = "Success"
           /\ unwrap(now).branch = "unknown"
           /\ is_some(unwrap(now).jobs)
           /\ unwrap(now).jobs # Some(<<>>)
           /\ is_some(unwrap(now).commit)

\* C3: a project whose pipelines are present keeps its place in `projects`
\* and has its pipelines present after every step of the store.
C3_PipelinesStayPresent ==
    [][\A i \in DOMAIN projects :
        is_some(projects[i].pipelines)
        => /\ i \in DOMAIN projects'
           /\ projects'[i].id = projects[i].id
           /\ is_some(projects'[i].pipelines)]_vars

\* C3 witness: a ProjectsLoaded has refreshed an already stored project (it
\* sent PipelinesFetch and no ProjectSelected) that holds a pipeline with jobs.
C3_Witness ==
    /\ event.type = "ProjectsLoaded"
    /\ OfType(emitted, "ProjectSelected") = <<>>
    /\ OfType(emitted, "PipelinesFetch") # <<>>
    /\ \E i \in DOMAIN projects :
        /\ is_some(projects[i].pipelines)
        /\ \E k \in DOMAIN unwrap(projects[i].pipelines) :
            is_some(unwrap(projects[i].pipelines)[k].jobs)

\* C5 (as claimed): PipelinesLoaded for a stored project sends JobsFetch for
\* exactly the pipelines of the batch whose status is active or which the
\* store holds with an active job.
C5_JobsFetchForActiveOrActiveJobs ==
    [][(/\ event'.type = "PipelinesLoaded"
        /\ event'.pipelines # <<>>
        /\ BatchProject(event'.pipelines) \in DOMAIN project_id_lookup) =>
        LET id == BatchProject(event'.pipelines)
            old == Stored(project_id_lookup, projects, id)
            wanted == {event'.pipelines[i].id : i \in
                        {j \in DOMAIN event'.pipelines :
                            \/ is_active(event'.pipelines[j].status)
                            \/ LET was == PipelineOf(old.pipelines, event'.pipelines[j].id)
                               IN  is_some(was) /\ has_active_jobs(unwrap(was))}}
            fetches == OfType(emitted', "JobsFetch")
        IN  /\ \A k \in DOMAIN fetches : fetches[k].project_id = id
            /\ {fetches[k].pipeline_id : k \in DOMAIN fetches} = wanted]_vars

\* the number of DTOs of a batch that name this repository
Occurrences(dtos, name) == Cardinality({i \in DOMAIN dtos : dtos[i].full_name = name})

\* C6: ProjectsLoaded with an already stored project: path, default branch,
\* both URLs and last activity become those of the (last) incoming entry;
\* pipelines (jobs and commits included), the three statistics counters and
\* statistics_loading stay as they were; and one PipelinesFetch for the id is
\* sent per incoming entry, whatever the age of the project.
C6_KnownProjectIsRefreshed ==
    [][event'.type = "ProjectsLoaded" =>
        \A name \in Names(event'.projects) \cap DOMAIN project_id_lookup :
            LET dto == event'.projects[LastOf(event'.projects, name)]
                old == Stored(project_id_lookup, projects, name)
                new == Stored(project_id_lookup', projects', name)
                fetches == SelectSeqBy(emitted',
                              [i \in DOMAIN emitted' |-> emitted'[i] = PipelinesFetch(name)])
            IN  /\ new.path = dto.full_name
                /\ new.default_branch = dto.default_branch
                /\ new.ssh_git_url = dto.ssh_url
                /\ new.url = dto.html_url
                /\ new.last_activity_at = dto.updated_at
                /\ new.pipelines = old.pipelines
                /\ new.commit_count = old.commit_count
                /\ new.repo_size_kb = old.repo_size_kb
                /\ new.artifacts_size_kb = old.artifacts_size_kb
                /\ new.statistics_loading = old.statistics_loading
                /\ Len(fetches) = Occurrences(event'.projects, name)]_vars

\* C6 (as claimed): ProjectsLoaded with an already stored project refreshes
\* the mutable fields, keeps pipelines, statistics counters and
\* statistics_loading, and sends exactly one PipelinesFetch for the id while
\* the event is handled.  A batch that names the stored repository twice
\* sends two.
C6_ExactlyOneFetchPerBatch ==
    [][event'.type = "ProjectsLoaded" =>
        \A name \in Names(event'.projects) \cap DOMAIN project_id_lookup :
            LET dto == event'.projects[LastOf(event'.projects, name)]
                old == Stored(project_id_lookup, projects, name)
                new == Stored(project_id_lookup', projects', name)
            IN  /\ new.path = dto.full_name
                /\ new.default_branch = dto.default_branch
                /\ new.ssh_git_url = dto.ssh_url
                /\ new.url = dto.html_url
                /\ new.last_activity_at = dto.updated_at
                /\ new.pipelines = old.pipelines
                /\ new.commit_count = old.commit_count
                /\ new.repo_size_kb = old.repo_size_kb
                /\ new.artifacts_size_kb = old.artifacts_size_kb
                /\ new.statistics_loading = old.statistics_loading
                /\ Len(OfType(emitted', "PipelinesFetch")) = 1]_vars

\* C6 witness: a one-entry batch reported the stored Widgets as last active 8
\* days ago; the store took that over, kept a pipeline with jobs and loaded
\* statistics, and sent exactly one PipelinesFetch.
C6_Witness ==
    /\ event = ProjectsLoaded(<<ProjectDto(Widgets, 1, Now - 8 * DayLen)>>)
    /\ OfType(emitted, "ProjectSelected") = <<>>
    /\ OfType(emitted, "PipelinesFetch") = <<PipelinesFetch(Widgets)>>
    /\ Widgets \in DOMAIN project_id_lookup
    /\ LET p == Stored(project_id_lookup, projects, Widgets)
       IN  /\ p.last_activity_at = Now - 8 * DayLen
           /\ p.default_branch = "master"
           /\ p.commit_count > 0
           /\ is_some(p.pipelines)
           /\ \E k \in DOMAIN unwrap(p.pipelines) :
                /\ is_some(unwrap(p.pipelines)[k].jobs)
                /\ is_some(unwrap(p.pipelines)[k].commit)

\* C7: ProjectSelected(id) on a stored project.  Pipelines absent: they become
\* Some(empty), nothing else of the project changes, and the only event sent
\* is one PipelinesFetch(id).  Pipelines present: the store is unchanged and
\* nothing is sent.  And a ProjectSelected(id) sends nothing once an earlier
\* ProjectSelected(id) has sent PipelinesFetch(id).
C7_SelectFetchesOnce ==
    [][(event'.type = "ProjectSelected" /\ event'.project_id \in DOMAIN project_id_lookup) =>
        LET id == event'.project_id
            old == Stored(project_id_lookup, projects, id)
        IN  /\ is_none(old.pipelines) =>
                /\ projects' = [projects EXCEPT ![project_id_lookup[id] + 1] =
                                    [old EXCEPT !.pipelines = Some(<<>>)]]
                /\ emitted' = <<PipelinesFetch(id)>>
            /\ is_some(old.pipelines) =>
                /\ projects' = projects
                /\ emitted' = <<>>
            /\ project_id_lookup' = project_id_lookup
            /\ sorted' = sorted
            /\ id \in select_fetched => emitted' = <<>>]_vars

\* C7 witness: Widgets, whose pipeline list has been filled since, is selected
\* again after a selection that sent PipelinesFetch; nothing is sent.
C7_Witness ==
    /\ event = ProjectSelected(Widgets)
    /\ Widgets \in select_fetched
    /\ emitted = <<>>
    /\ Stored(project_id_lookup, projects, Widgets).pipelines # Some(<<>>)

\* C8: ProjectDetailsOpen on a project no statistics were ever applied to and
\* whose statistics_loading is false sends exactly one ProjectStatisticsFetch,
\* for that project; a ProjectUpdated for that project with
\* statistics_loading = TRUE is sent before it; and the store holds
\* statistics_loading = TRUE.
C8_DetailsOpenFetchesStatistics ==
    [][(/\ event'.type = "ProjectDetailsOpen"
        /\ event'.project_id \in DOMAIN project_id_lookup
        /\ event'.project_id \notin stats_applied
        /\ ~Stored(project_id_lookup, projects, event'.project_id).statistics_loading) =>
        LET id == event'.project_id
            new == Stored(project_id_lookup', projects', id)
        IN  /\ OfType(emitted', "ProjectStatisticsFetch") = <<ProjectStatisticsFetch(id)>>
            /\ new.statistics_loading
            /\ \E i, j \in DOMAIN emitted' :
                /\ i < j
                /\ emitted'[j] = ProjectStatisticsFetch(id)
                /\ emitted'[i] = ProjectUpdated(new)]_vars

\* C8 witness: details were opened on a project without statistics; the fetch
\* was sent and the flag is set.
C8_Witness ==
    /\ event.type = "ProjectDetailsOpen"
    /\ event.project_id \notin stats_applied
    /\ OfType(emitted, "ProjectStatisticsFetch") = <<ProjectStatisticsFetch(event.project_id)>>
    /\ Stored(project_id_lookup, projects, event.project_id).statistics_loading

\* C9 (as claimed): ProjectDetailsOpen sends no ProjectStatisticsFetch for a
\* project a ProjectStatisticsLoaded was applied to, nor for one whose
\* statistics_loading is true.
C9_NoRefetchOnceLoaded ==
    [][(/\ event'.type = "ProjectDetailsOpen"
        /\ event'.project_id \in DOMAIN project_id_lookup
        /\ \/ event'.project_id \in stats_applied
           \/ Stored(project_id_lookup, projects, event'.project_id).statistics_loading)
        => OfType(emitted', "ProjectStatisticsFetch") = <<>>]_vars

\* the positions of a pipeline list that lie in the recent window: the
\* pipeline has an interesting source and at most RecentWindow pipelines with
\* an interesting source stand at or before it
InWindow(ps) ==
    {i \in DOMAIN ps :
        /\ is_interesting(ps[i].source)
        /\ Cardinality({j \in 1..i : is_interesting(ps[j].source)}) <= RecentWindow}

\* C11: ProjectDetailsOpen(id) on a stored project sends JobsFetch(id, p) once
\* for every pipeline p of the recent window whose jobs are unset, for no
\* pipeline outside the window and for none whose jobs are present.
C11_DetailsOpenFetchesWindowJobs ==
    [][(event'.type = "ProjectDetailsOpen" /\ event'.project_id \in DOMAIN project_id_lookup) =>
        LET id == event'.project_id
            project == Stored(project_id_lookup, projects, id)
            ps == IF is_some(project.pipelines) THEN unwrap(project.pipelines) ELSE <<>>
            wanted == {ps[i].id : i \in {j \in InWindow(ps) : is_none(ps[j].jobs)}}
            fetches == OfType(emitted', "JobsFetch")
        IN  /\ \A k \in DOMAIN fetches : fetches[k].project_id = id
            /\ {fetches[k].pipeline_id : k \in DOMAIN fetches} = wanted
            /\ \A k, l \in DOMAIN fetches :
                    fetches[k].pipeline_id = fetches[l].pipeline_id => k = l]_vars

\* C11 witness: the project stores more interesting runs than the window
\* holds, the first run has its jobs, the last one (outside the window) has
\* none, and the details view asked for the jobs of the window's other runs
\* only.
C11_Witness ==
    /\ event = ProjectDetailsOpen(Widgets)
    /\ Widgets \in DOMAIN project_id_lookup
    /\ LET project == Stored(project_id_lookup, projects, Widgets)
           ps == unwrap(project.pipelines)
       IN  /\ is_some(project.pipelines)
           /\ Len(ps) > RecentWindow
           /\ \A i \in DOMAIN ps : is_interesting(ps[i].source)
           /\ is_some(ps[1].jobs)
           /\ is_none(ps[Len(ps)].jobs)
           /\ Len(OfType(emitted, "JobsFetch")) = RecentWindow - 1
           /\ JobsFetch(Widgets, ps[Len(ps)].id) \notin Range(emitted)
           /\ JobsFetch(Widgets, ps[2].id) \in Range(emitted)

\* a sequence holds exactly the elements of another, as often
Permutation(s, t) ==
    /\ Len(s) = Len(t)
    /\ \A x \in Range(s) \cup Range(t) :
            Cardinality({i \in DOMAIN s : s[i] = x}) = Cardinality({i \in DOMAIN t : t[i] = x})

C13_SortedProjection ==
    /\ Len(sorted) = Len(projects)
    /\ {sorted[i].id : i \in DOMAIN sorted} = {projects[i].id : i \in DOMAIN projects}
    /\ \A i, j \in DOMAIN sorted : sorted[i].id = sorted[j].id => i = j
    /\ \A i \in DOMAIN sorted :
            \E k \in DOMAIN projects :
                /\ projects[k].id = sorted[i].id
                /\ last_activity(projects[k]) = last_activity(sorted[i])
    /\ \A i, j \in DOMAIN sorted :
            i < j => last_activity(sorted[i]) >= last_activity(sorted[j])

\* C13 witness: the second repository stored is the more recently active one
\* and stands first in the projection, after an event that does not recompute
\* the projection.
C13_Witness ==
    /\ event.type = "ProjectStatisticsLoaded"
    /\ Len(projects) = 2
    /\ last_activity(projects[2]) > last_activity(projects[1])
    /\ Len(sorted) = 2
    /\ sorted[1].id = projects[2].id
    /\ sorted[2].id = projects[1].id

\* the error notices pending after the first n calls on the notice service:
\* one more for each AppError applied, one less for each error notice popped
RECURSIVE PendingErrors(_)
PendingErrors(n) ==
    IF n = 0 THEN 0
    ELSE LET call == notice_log[n]
         IN  PendingErrors(n - 1)
                + (IF call.op = "apply" /\ call.event.type = "AppError" THEN 1 ELSE 0)
                - (IF call.op = "pop" /\ is_some(call.result)
                      /\ unwrap(call.result).level = "Error" THEN 1 ELSE 0)

\* C14: every pop_notice made while an error notice is pending returns an
\* error notice, whatever was pushed before and in whatever order.
C14_ErrorsPopFirst ==
    \A k \in DOMAIN notice_log :
        (notice_log[k].op = "pop" /\ PendingErrors(k - 1) > 0) =>
            /\ is_some(notice_log[k].result)
            /\ unwrap(notice_log[k].result).level = "Error"

\* C14 witness: an info notice was pushed, then an error notice, and the pop
\* that followed returned the error notice; the info notice is still queued.
C14_Witness ==
    /\ Len(notice_log) = 3
    /\ notice_log[1] = [op |-> "apply", event |-> [type |-> "ScreenCaptureToClipboard"]]
    /\ notice_log[2] = [op |-> "apply", event |-> AppErrorOf([type |-> "ExpiredGithubToken"])]
    /\ notice_log[3] = [op |-> "pop",
                        result |-> Some([level |-> "Error",
                                         message |-> [kind |-> "ExpiredGithubToken"]])]
    /\ info_notices = <<[level |-> "Info", message |-> [kind |-> "ScreenCaptured"]]>>
    /\ error_notices = <<>>

\* C15: applying an AppError appends exactly one notice, of level Error, to
\* the error queue and leaves the info queue alone; an invalid or expired
\* token becomes the notice kind of the same name; and has_error() holds
\* exactly when more error notices were pushed than popped.
C15_AppErrorBecomesErrorNotice ==
    /\ [](has_error(NoticesNow) <=> PendingErrors(Len(notice_log)) > 0)
    /\ [][\A e \in GlomErrors :
            notice_log' = Append(notice_log, [op |-> "apply", event |-> AppErrorOf(e)]) =>
                /\ Len(error_notices') = Len(error_notices) + 1
                /\ SubSeq(error_notices', 1, Len(error_notices)) = error_notices
                /\ error_notices'[Len(error_notices')].level = "Error"
                /\ e.type \in {"InvalidGithubToken", "ExpiredGithubToken"} =>
                        error_notices'[Len(error_notices')].message = [kind |-> e.type]
                /\ info_notices' = info_notices]_vars

\* C15 witness: two errors were applied and one error notice popped, so one is
\* pending, the invalid-token notice, and has_error() holds.
C15_Witness ==
    /\ Len(notice_log) = 3
    /\ notice_log[1] = [op |-> "apply", event |-> AppErrorOf([type |-> "GeneralError",
                                                              message |-> "boom"])]
    /\ notice_log[2] = [op |-> "apply", event |-> AppErrorOf([type |-> "InvalidGithubToken"])]
    /\ notice_log[3].op = "pop"
    /\ error_notices = <<[level |-> "Error", message |-> [kind |-> "InvalidGithubToken"]]>>
    /\ has_error(NoticesNow)

\* a request built from configuration revision n alone
RequestFrom(n) ==
    RequestOf(ClientOf(ClientConfigOf(n)),
              JobsUrl(ClientConfigOf(n).base_url, Widgets, 1),
              ClientConfigOf(n).private_token)

\* C19 (as claimed): every request a fetch builds while configuration updates
\* run takes base URL, token and client timeout from one and the same
\* configuration.
C19_RequestFromOneConfig ==
    \A f \in Fetchers :
        is_some(fetchers[f].request) =>
            \E n \in 0..MaxConfigUpdates : unwrap(fetchers[f].request) = RequestFrom(n)

\* C20 (as claimed): no emitter ever fails in a send, and a send made after
\* the receiver is gone leaves the channel as it was.
C20_EmitNeverFails ==
    /\ [](panicked = {})
    /\ [][~receiver_alive => queue' = queue]_vars

\* nothing is pending: the channel is empty and every fetch has ended
Quiescent == queue = <<>> /\ \A i \in DOMAIN tasks : tasks[i].state = "done"

\* C16: with finitely many events from outside and every fetch completing,
\* the loop comes to rest with no request or result pending; and no handler
\* of the store sends an event of the kind it is handling.
C16_CascadeTerminates ==
    /\ <>[]Quiescent
    /\ [](\A i \in DOMAIN emitted : emitted[i].type # event.type)

\* the loop at rest after a cascade of at least four fetches, a follow-up
\* of the store among them
C16_Witness ==
    /\ Quiescent
    /\ ~crashed
    /\ Len(tasks) >= 4
    /\ \E i \in DOMAIN tasks : tasks[i].request.type = "JobsFetch"
    /\ external = MaxExternal

\* the fetch tasks for the jobs of one run whose JobsLoaded the store applied
ArrivedFor(project_id, pipeline_id) ==
    {t \in Range(jobs_arrivals) : tasks[t].request = JobsFetch(project_id, pipeline_id)}

\* the later-issued of a set of tasks
Latest(ts) == CHOOSE t \in ts : \A u \in ts : u <= t

\* C18 (as claimed): whatever order the results of the job fetches of a run
\* arrive in, the run holds the job list of the latest-issued fetch among
\* those applied.
C18_NoStaleOverwrite ==
    ~crashed /\ Widgets \in Known /\ ArrivedFor(Widgets, 1) # {} =>
        LET result == tasks[Latest(ArrivedFor(Widgets, 1))].result
            run == PipelineOf(Stored(project_id_lookup, projects, Widgets).pipelines, 1)
        IN  is_some(run) =>
                unwrap(run).jobs = Some([i \in DOMAIN result.jobs |-> JobFrom(result.jobs[i])])

\* the store after an event, ready for the next one
After(st, e) == [StoreApply(st, e) EXCEPT !.out = <<>>]

\* the project graph of a store: the projects and the index to them
Graph(st) == <<st.projects, st.lookup>>

\* the project a result event is for
TargetOf(e) == IF e.type = "PipelinesLoaded" THEN BatchProject(e.pipelines) ELSE e.project_id

\* C17: on every store reached, a result event for one repository and a
\* result event for the other give the same projects and index in either
\* order, and each leaves the projects that are not its target as they were.
C17_OrderTolerant ==
    ~crashed =>
        \A e1 \in ResultEvents(Widgets), e2 \in ResultEvents(Gears) :
            /\ Graph(After(After(StoreNow, e1), e2)) = Graph(After(After(StoreNow, e2), e1))
            /\ \A e \in {e1, e2} :
                    LET after == After(StoreNow, e)
                    IN  /\ DOMAIN after.projects = DOMAIN projects
                        /\ after.lookup = project_id_lookup
                        /\ \A i \in DOMAIN projects :
                                projects[i].id # TargetOf(e) => after.projects[i] = projects[i]

\* both repositories stored and changed by result events: one with runs and
\* jobs, the other with statistics, the last event a result for one of them
C17_Witness ==
    /\ ~crashed
    /\ {Widgets, Gears} \subseteq Known
    /\ event.type \in {"JobsLoaded", "ProjectStatisticsLoaded"}
    /\ \E a, b \in DOMAIN projects :
            /\ a # b
            /\ is_some(PipelineOf(projects[a].pipelines, 1))
            /\ is_some(unwrap(PipelineOf(projects[a].pipelines, 1)).jobs)
            /\ projects[b].commit_count > 0
            /\ is_some(projects[b].pipelines)

\* C27: a project seen for the first time, once in its batch, is inserted
\* without pipelines and without a PipelinesFetch when eight whole days or
\* more have passed since its last activity, and with an empty pipeline list
\* and one PipelinesFetch otherwise.
C27_OlderThanSevenDays ==
    [][event'.type = "ProjectsLoaded" /\ ~crashed' =>
        \A i \in DOMAIN event'.projects :
            LET dto == event'.projects[i]
                name == dto.full_name
                once == \A j \in DOMAIN event'.projects :
                            event'.projects[j].full_name = name => j = i
                stored == Stored(project_id_lookup', projects', name)
            IN  name \notin Known /\ once =>
                    IF Now - dto.updated_at >= 8 * DayLen
                    THEN /\ is_none(stored.pipelines)
                         /\ PipelinesFetch(name) \notin Range(emitted')
                    ELSE /\ stored.pipelines = Some(<<>>)
                         /\ Len(OfType(emitted', "PipelinesFetch")) >= 1
                         /\ PipelinesFetch(name) \in Range(emitted')]_vars

\* one batch inserted a project last active 8 days ago, left without
\* pipelines, and one last active 7 days and a half ago, fetched at once
C27_Witness ==
    /\ event.type = "ProjectsLoaded"
    /\ \E a, b \in DOMAIN projects :
            /\ projects[a].last_activity_at = Now - 8 * DayLen
            /\ is_none(projects[a].pipelines)
            /\ projects[b].last_activity_at = Now - 7 * DayLen - 1
            /\ projects[b].pipelines = Some(<<>>)
            /\ PipelinesFetch(projects[b].id) \in Range(emitted)
            /\ PipelinesFetch(projects[a].id) \notin Range(emitted)

\* the ids of a sequence of pipelines or pipeline DTOs, in its order
IdsIn(ps) == [i \in DOMAIN ps |-> ps[i].id]

\* C30: once PipelinesLoaded is applied for a stored project, the pipelines
\* of the project are those of the batch, id for id and as often; a pipeline
\* stored before whose id the batch does not name is gone.
C30_PipelinesAreTheBatch ==
    [][/\ event'.type = "PipelinesLoaded"
       /\ ~crashed'
       /\ BatchProject(event'.pipelines) \in Known
       => LET id == BatchProject(event'.pipelines)
              before == Stored(project_id_lookup, projects, id).pipelines
              after == Stored(project_id_lookup', projects', id).pipelines
          IN  /\ is_some(after)
              /\ Permutation(IdsIn(unwrap(after)), IdsIn(event'.pipelines))
              /\ is_some(before) =>
                    \A i \in DOMAIN unwrap(before) :
                        unwrap(before)[i].id \notin Range(IdsIn(event'.pipelines)) =>
                            \A j \in DOMAIN unwrap(after) :
                                unwrap(after)[j].id # unwrap(before)[i].id]_vars

\* a page naming run 1 alone was applied to a project that already held
\* run 1 with its jobs: run 1 is all the project holds
C30_Witness ==
    /\ event.type = "PipelinesLoaded"
    /\ ~crashed
    /\ IdsIn(event.pipelines) = <<1>>
    /\ BatchProject(event.pipelines) \in Known
    /\ LET ps == Stored(project_id_lookup, projects, BatchProject(event.pipelines)).pipelines
       IN  is_some(ps) /\ IdsIn(unwrap(ps)) = <<1>> /\ is_some(unwrap(ps)[1].jobs)

\* the events a fetch operation has sent
SentBy(i) == SelectSeqBy(queue, [k \in DOMAIN queue |-> queue[k].task = i])

\* the application error the claim names for a client error
ExpectedError(err) ==
    CASE err.kind = "InvalidToken" -> {[type |-> "InvalidGithubToken"]}
      [] err.kind = "ExpiredToken" -> {[type |-> "ExpiredGithubToken"]}
      [] err.kind = "ConfigValidation" ->
            {[type |-> "ConfigValidationError", field |-> err.field, message |-> err.message]}
      [] err.kind = "GithubApi" -> {GeneralError(err.message)}
      [] err.kind = "JsonParse" ->
            {GeneralError("JSON parse error from " \o err.endpoint \o ": " \o err.message)}
      [] err.kind \in {"Http", "Config"} ->
            {GeneralError(prefix \o err.text) : prefix \in {"", "HTTP error: "}}
      [] err.kind = "InvalidUrl" -> {GeneralError("Invalid URL: " \o err.url)}
      [] err.kind = "NotFound" -> {GeneralError("Not found: " \o err.resource)}
      [] OTHER -> {GeneralError(text) :
                    text \in {"Authentication failed", "Request timeout", "Rate limit exceeded"}}

\* C21: a fetch operation that called the API and ended has sent exactly one
\* event: the Loaded event of its request if the call succeeded, else the
\* AppError with the client error converted (the two token errors to the
\* token variants, the others to an error with their text), and then it
\* returned the client error itself; before it ends it has sent nothing.
C21_OneEventPerFetch ==
    \A i \in DOMAIN tasks :
        tasks[i].called =>
            LET outcome == unwrap(tasks[i].returned)
            IN  IF tasks[i].state = "answered" THEN SentBy(i) = <<>>
                ELSE /\ tasks[i].state = "done"
                     /\ Len(SentBy(i)) = 1
                     /\ IF outcome.ok
                        THEN SentBy(i)[1].event = FetchResult(tasks[i].request, remote)
                        ELSE /\ SentBy(i)[1].event.type = "AppError"
                             /\ SentBy(i)[1].event.error \in ExpectedError(outcome.error)

\* two operations have ended, one with its Loaded event and one with the
\* AppError of an expired token
C21_Witness ==
    \E i, j \in DOMAIN tasks :
        /\ tasks[i].state = "done" /\ tasks[i].called /\ unwrap(tasks[i].returned).ok
        /\ tasks[j].state = "done" /\ tasks[j].called
        /\ unwrap(tasks[j].returned) = Failed([kind |-> "ExpiredToken"])
        /\ Len(queue) = 2

\* C22: with a configuration that fails validation, every fetch operation
\* returns Ok(()) without calling the API and without sending an event.
C22_NotConfiguredIsNoOp ==
    ~validate(config) =>
        /\ queue = <<>>
        /\ \A i \in DOMAIN tasks :
                /\ ~tasks[i].called
                /\ tasks[i].state \in {"running", "done"}
                /\ tasks[i].state = "done" => tasks[i].returned = Some(Answered("()"))

\* two different fetch operations have ended on a configuration whose
\* per_page is 0
C22_Witness ==
    /\ config.per_page = 0
    /\ Len(tasks) = MaxFetchOps
    /\ \A i \in DOMAIN tasks : tasks[i].state = "done"
    /\ tasks[1].request # tasks[2].request

\* the statistics operation has returned
StatisticsReturned == api.pc = "done" /\ is_some(api.result)

\* C28: the statistics operation returns an error exactly when the repository
\* request failed, and then that error; else the commit count is the sum over
\* the contributor summary, or after a failed summary the number of commits
\* on the most recent page, or 0 after a failed page, and the artifact size
\* is the sum over the artifacts or 0 after a failed artifact request.
C28_StatisticsAbsorbsFailures ==
    StatisticsReturned =>
        LET result == unwrap(api.result)
            repo == unwrap(api.repo_details)
        IN  /\ result.ok <=> repo.ok
            /\ ~result.ok => result = repo
            /\ result.ok =>
                /\ result.value.commit_count =
                        IF unwrap(api.contributors).ok
                        THEN Sum(unwrap(api.contributors).value.contributions)
                        ELSE IF unwrap(api.commits).ok
                             THEN ArrayLen(unwrap(api.commits).value)
                             ELSE 0
                /\ is_some(api.commits) <=> ~unwrap(api.contributors).ok
                /\ result.value.job_artifacts_size =
                        IF unwrap(api.artifacts).ok
                        THEN Sum(unwrap(api.artifacts).value.size_in_bytes)
                        ELSE 0

\* the operation succeeded with the summary failed, the fallback page of
\* three commits counted, and the artifact request failed
C28_Witness ==
    /\ StatisticsReturned
    /\ unwrap(api.result).ok
    /\ ~unwrap(api.contributors).ok
    /\ unwrap(api.result).value.commit_count = 3
    /\ ~unwrap(api.artifacts).ok
    /\ unwrap(api.result).value.job_artifacts_size = 0

\* the description has "expired" or "expiry" in it
MentionsExpiry(description) ==
    \E d \in {<<"e", "x", "p", "i", "r", "e", "d">>, <<"e", "x", "p", "i", "r", "y">>} :
        contains(description, d)

\* C29: a request answered with status 401 fails with ExpiredToken if the
\* body's error is expired_token, with InvalidToken if it is invalid_token,
\* with ExpiredToken if the body has another error and a description that
\* mentions expiry, and with Authentication in every other case.
C29_UnauthorizedClassified ==
    api.response.status = 401 =>
        LET body == api.response.body
            kind == IF body.shape # "error" THEN "Authentication"
                    ELSE IF body.error = "expired_token" THEN "ExpiredToken"
                    ELSE IF body.error = "invalid_token" THEN "InvalidToken"
                    ELSE IF /\ is_some(body.error_description)
                            /\ MentionsExpiry(unwrap(body.error_description))
                         THEN "ExpiredToken"
                         ELSE "Authentication"
        IN  api.answer = Some(Failed([kind |-> kind]))

\* a 401 with error bad_credentials and a description with "expiry" in it was
\* classified
C29_Witness ==
    /\ api.response.status = 401
    /\ api.response.body.shape = "error"
    /\ api.response.body.error = "bad_credentials"
    /\ api.response.body.error_description =
            Some(<<"p", "a", "s", "t", " ", "e", "x", "p", "i", "r", "y">>)
    /\ api.answer = Some(Failed([kind |-> "ExpiredToken"]))

\* the input stack applies the event at the head of the channel in this step
InputApplies == input'.applied = input.applied + 1

\* the kind of handler an open event is for, and a close event
KindOf(type) ==
    CASE type \in {"ProjectDetailsOpen", "ProjectDetailsClose"} -> "ProjectDetails"
      [] type \in {"PipelineActionsOpen", "PipelineActionsClose"} -> "PipelineActions"
      [] type \in {"ConfigOpen", "ConfigClose"} -> "Config"

\* C25: an open event puts one new handler of its kind on top of the stack
\* and calls on_push of it; a close event takes off the stack the handler
\* that the open event of its kind pushed, so a handler of that kind, and
\* calls on_pop of it.
C25_OpenPushesClosePops ==
    [][InputApplies =>
        LET e == Head(queue).event
            before == input.processors
            after == input'.processors
        IN  /\ e.type \in {"ProjectDetailsOpen", "PipelineActionsOpen", "ConfigOpen"} =>
                /\ Len(after) = Len(before) + 1
                /\ SubSeq(after, 1, Len(before)) = before
                /\ after[Len(after)].kind = KindOf(e.type)
                /\ input'.hooks =
                        Append(input.hooks, [hook |-> "on_push", kind |-> KindOf(e.type)])
            /\ e.type \in {"ProjectDetailsClose", "PipelineActionsClose", "ConfigClose"} =>
                /\ before # <<>>
                /\ before[Len(before)].kind = KindOf(e.type)
                /\ Len(after) = Len(before) - 1
                /\ input'.hooks =
                        Append(input.hooks, [hook |-> "on_pop", kind |-> KindOf(e.type)])
    ]_vars

\* C26: an event applied to the input stack is applied to one handler at most,
\* the one on top once the event's push or pop is done, and every handler
\* below that one is left as it was, its selection included.
C26_OnlyTopReceives ==
    [][InputApplies =>
        LET e == Head(queue).event
            staying == Intercepted(input, e).processors
            after == input'.processors
        IN  /\ Len(after) = Len(staying)
            /\ \A i \in 1..(Len(after) - 1) : after[i] = staying[i]
            /\ after # <<>> =>
                  after[Len(after)].received = staying[Len(after)].received + 1
    ]_vars

\* a selection event was applied to the details handler while it covers the
\* normal-mode handler, which still has its own selection and nothing more
C26_Witness ==
    /\ Len(input.processors) = 2
    /\ input.processors[1].kind = "Normal"
    /\ input.processors[1].selected = Some(Widgets)
    /\ input.processors[2].kind = "ProjectDetails"
    /\ input.processors[2].selected = Some(1)
    /\ input.processors[1].received + input.processors[2].received = input.applied

\* neither timer loop is running
LoopsStopped ==
    /\ poller.projects_task \in {"ended", "aborted"}
    /\ poller.jobs_task \in {"ended", "aborted"}

\* C23: when the shutdown signal has been sent to a started scheduler, the
\* time comes when both timer loops have stopped and start() has returned;
\* and once start() has returned, no JobsActiveFetch is sent and no project
\* fetch is started.
C23_ShutdownStops ==
    /\ (poller.sent /\ poller.start # "new") ~> (poller.start = "returned" /\ LoopsStopped)
    /\ [][poller.start = "returned" => (queue' = queue /\ tasks' = tasks)]_vars

\* start() has returned after a shutdown signal, each timer having ticked
C23_Witness ==
    /\ poller.start = "returned"
    /\ poller.sent
    /\ LoopsStopped
    /\ poller.projects_ticks > 0
    /\ poller.jobs_ticks > 0

\* C24: a tick of the jobs timer sends exactly one JobsActiveFetch and starts
\* no fetch, nor any request of the API; a tick of the projects timer starts
\* exactly one project fetch and sends nothing itself; and a tick of either
\* timer leaves the other timer's loop and its count of ticks as they were.
C24_TicksIndependent ==
    [][/\ poller'.jobs_ticks # poller.jobs_ticks =>
            /\ queue' = Append(queue, Queued(JobsActiveFetch, 0))
            /\ tasks' = tasks
            /\ api' = api
            /\ poller'.projects_task = poller.projects_task
            /\ poller'.projects_ticks = poller.projects_ticks
       /\ poller'.projects_ticks # poller.projects_ticks =>
            /\ tasks' = Append(tasks, Spawned(ProjectsFetch))
            /\ queue' = queue
            /\ poller'.jobs_task = poller.jobs_task
            /\ poller'.jobs_ticks = poller.jobs_ticks
    ]_vars

\* both timers have ticked twice, in whatever order, and both loops run
C24_Witness ==
    /\ poller.projects_ticks = MaxTicks
    /\ poller.jobs_ticks = MaxTicks
    /\ Len(queue) = MaxTicks
    /\ Len(tasks) = MaxTicks
    /\ poller.projects_task = "sleeping"
    /\ poller.jobs_task = "sleeping"

\* C31: a PipelinesLoaded with an empty pipeline list is handled without a
\* panic of the consumer and without any event being sent.
C31_EmptyPipelinesReturns ==
    (event.type = "PipelinesLoaded" /\ event.pipelines = <<>>) =>
        (~crashed /\ emitted = <<>>)

\* C32: a JobsLoaded with an empty job list for a stored project is handled
\* without a panic of the consumer, and the pipeline it names, if the project
\* stores it, has the empty job list afterwards.
C32_EmptyJobsReturns ==
    (event.type = "JobsLoaded" /\ event.jobs = <<>> /\ event.project_id \in Known) =>
        /\ ~crashed
        /\ LET p == PipelineOf(Stored(project_id_lookup, projects,
                                      event.project_id).pipelines, event.pipeline_id)
           IN  is_some(p) => unwrap(p).jobs = Some(<<>>)

\* C33: an empty ProjectsLoaded applied to a store without projects is
\* handled without a panic of the consumer and sends no ProjectSelected, and
\* a non-empty ProjectsLoaded applied while the projection is still empty
\* sends the ProjectSelected of a first batch.
C33_EmptyProjectsReturns ==
    [][event'.type = "ProjectsLoaded" =>
        /\ (projects = <<>> /\ event'.projects = <<>>) =>
                (~crashed' /\ OfType(emitted', "ProjectSelected") = <<>>)
        /\ (sorted = <<>> /\ event'.projects # <<>>) =>
                Len(OfType(emitted', "ProjectSelected")) = 1]_vars

\* C34: every ProjectUpdated sent while an event was handled carries the
\* store's entry for its project as it was when the event was sent; for the
\* last ProjectUpdated of a project sent by a handler that is the entry the
\* store holds once the handler is done, with its pipelines, jobs, statistics
\* counters and statistics_loading flag.
C34_ProjectUpdatedIsStoreEntry ==
    ~crashed =>
        \A i \in DOMAIN emitted :
            (/\ emitted[i].type = "ProjectUpdated"
             /\ \A j \in (i + 1)..Len(emitted) :
                    ~(/\ emitted[j].type = "ProjectUpdated"
                      /\ emitted[j].project.id = emitted[i].project.id)) =>
                /\ emitted[i].project.id \in Known
                /\ emitted[i].project =
                        Stored(project_id_lookup, projects, emitted[i].project.id)

\* the store shows the statistics of this project as loading
StatisticsLoading(id) ==
    id \in Known /\ Stored(project_id_lookup, projects, id).statistics_loading

\* a statistics fetch for this project has ended
StatisticsFetchEnded(id) ==
    \E i \in DOMAIN tasks :
        tasks[i].request = ProjectStatisticsFetch(id) /\ tasks[i].state = "done"

\* C35: when the store shows the statistics of a project as loading and the
\* statistics fetch it asked for has ended, with a result or with a failure,
\* the time comes when the store no longer shows them as loading.
C35_LoadingEnds ==
    (StatisticsLoading(Widgets) /\ StatisticsFetchEnded(Widgets))
        ~> ~StatisticsLoading(Widgets)

\* C36: once the normal-mode handler has been pushed, the stack of handlers
\* is never empty and the normal-mode handler is the bottom of it, whatever
\* events have been applied, two close-triggering key presses sent before the
\* first close event is consumed included.
C36_NormalStaysAtBottom ==
    (input.hooks # <<>> /\ input.hooks[1] = [hook |-> "on_push", kind |-> "Normal"]) =>
        /\ input.processors # <<>>
        /\ input.processors[1].kind = "Normal"

\* C37: after every event applied to the store, every entry of the sorted
\* projection is equal, field by field, to the entry the store holds for the
\* same project id.
C37_SortedIsCurrent ==
    ~crashed =>
        \A i \in DOMAIN sorted :
            /\ sorted[i].id \in Known
            /\ sorted[i] = Stored(project_id_lookup, projects, sorted[i].id)

\* C38: a download of a job's log whose request is answered with a status
\* that is not a success dispatches one AppError and no JobLogDownloaded.
C38_FailedDownloadIsAppError ==
    (/\ event.type = "JobLogFetch"
     /\ api.response # NoResponse
     /\ api.response.status \notin 200..299) =>
        /\ Len(OfType(emitted, "AppError")) = 1
        /\ OfType(emitted, "JobLogDownloaded") = <<>>

RECURSIVE PushedNotices(_, _)
PushedNotices(n, level) ==
    IF n = 0 THEN <<>>
    ELSE LET call == notice_log[n]
             alone == [info |-> <<>>, error |-> <<>>, recent |-> None]
             pushed == IF call.op # "apply" THEN <<>>
                       ELSE IF level = "Info" THEN NoticeApplyTo(alone, call.event).info
                       ELSE NoticeApplyTo(alone, call.event).error
         IN  PushedNotices(n - 1, level) \o pushed

\* the notices of a level that the first n calls popped, in the order of the
\* calls
RECURSIVE PoppedNotices(_, _)
PoppedNotices(n, level) ==
    IF n = 0 THEN <<>>
    ELSE LET call == notice_log[n]
             popped == IF /\ call.op = "pop"
                          /\ is_some(call.result)
                          /\ unwrap(call.result).level = level
                       THEN call.result ELSE <<>>
         IN  PoppedNotices(n - 1, level) \o popped

\* C40: within one level the notices are popped in the order they were
\* pushed and each pushed notice is popped once: at any time the notices
\* pushed so far are the notices popped so far followed by the notices still
\* in the queue.  A pop with both queues empty returns nothing and leaves the
\* most recent notice as it was.
C40_QueuesAreFifo ==
    /\ [](/\ PushedNotices(Len(notice_log), "Info") =
                PoppedNotices(Len(notice_log), "Info") \o info_notices
          /\ PushedNotices(Len(notice_log), "Error") =
                PoppedNotices(Len(notice_log), "Error") \o error_notices)
    /\ [][(/\ Len(notice_log') = Len(notice_log) + 1
           /\ notice_log'[Len(notice_log')].op = "pop"
           /\ info_notices = <<>>
           /\ error_notices = <<>>) =>
                /\ notice_log'[Len(notice_log')].result = None
                /\ most_recent' = most_recent
                /\ info_notices' = <<>>
                /\ error_notices' = <<>>]_vars

\* two different errors were pushed and a pop returned the first; the second
\* is still in the queue
C40_Witness ==
    /\ Len(notice_log) = 3
    /\ notice_log[1] = [op |-> "apply", event |-> AppErrorOf([type |-> "ExpiredGithubToken"])]
    /\ notice_log[2] = [op |-> "apply", event |-> AppErrorOf([type |-> "InvalidGithubToken"])]
    /\ notice_log[3].op = "pop"
    /\ notice_log[3].result = Some(Head(PushedNotices(2, "Error")))
    /\ error_notices = Tail(PushedNotices(2, "Error"))
    /\ Len(error_notices) = 1
    /\ error_notices[1] # unwrap(notice_log[3].result)

====
